---- MODULE Spec2Model ----
(***************************************************************************)
(* A model of the portiq gateway's request plane: the weighted round-robin *)
(* load balancer, the router's matching and precedence, the gateway        *)
(* runtime that requests snapshot and reload_config swaps, the middleware  *)
(* chain with its terminal handler, the token-bucket rate limiter, and the *)
(* listener supervisor's accept loops and shutdown.                        *)
(*                                                                         *)
(* Strings are TLA+ strings; positions in `weighted` and the cursor are    *)
(* 0-based as in the source, so a sequence s is read at s[i + 1].          *)
(***************************************************************************)
EXTENDS Bags, FiniteSets, Integers, Sequences, TLC

VARIABLES
    \* load_balancer/mod.rs: one WeightedRoundRobin and its callers
    upstreams,      \* WeightedRoundRobin.upstreams: sequence of [target, weight]
    next_index,     \* WeightedRoundRobin.next_index (AtomicUsize)
    sel_pc,         \* per caller of select(): "idle" or "loaded"
    sel_index,      \* per caller: the local upstream_index read at line 44
    results,        \* what the completed select() calls returned, in completion order
    \* router.rs: one Router and the last lookup made on it
    http,           \* Router.http: the routes in declaration order
    req,            \* the (host, path, listener) of the request being routed
    route_result,   \* None until get_route is called, then Some(what it returned)
    \* the gateway: the shared runtime reference, reloads and requests
    gateway_state,  \* SharedGatewayState: which of `runtimes` the cell points to
    runtimes,       \* every GatewayRuntime built so far (snapshots keep old ones alive)
    rl,             \* per admin reload call: where it is in reload_config, its locals
    rq,             \* per request task: where it is in handle_client, its locals
    \* middleware/mod.rs: one run of Next over a chain
    chain_in,       \* the chain, the request and what the outside world will answer
    chain_out,      \* None until Next::run returns, then Some(its outcome)
    \* middleware/rate_limiter: the factory's store, the clock and the callers
    store,          \* RateLimiterFactory.store: key -> TokenBucket
    now,            \* Instant::now(), in clock ticks
    rt,             \* per rate-limited request: where it is in call, its locals
    hist,           \* history, per key: the allow() calls made since its bucket was created
    \* server/mod.rs: the accept loops, the connection tasks and the process
    cancel_token,   \* CancellationToken: whether cancel() has been called
    accept_loops,   \* per listener: where its run_tcp_listener task is, what it accepted
    conns,          \* the connection tasks spawned so far, in spawn order
    process         \* the process: running, draining (with seconds slept), exited

lb_vars == <<upstreams, next_index, sel_pc, sel_index, results>>

router_vars == <<http, req, route_result>>

gw_vars == <<gateway_state, runtimes, rl, rq>>

chain_vars == <<chain_in, chain_out>>

rate_vars == <<store, now, rt, hist>>

listen_vars == <<cancel_token, accept_loops, conns, process>>

vars == <<upstreams, next_index, sel_pc, sel_index, results, http, req, route_result,
          gateway_state, runtimes, rl, rq, chain_in, chain_out, store, now, rt, hist,
          cancel_token, accept_loops, conns, process>>

(***************************************************************************)
(* Bounds                                                                  *)
(***************************************************************************)
MaxUpstreams == 2
MaxWeight == 2
MaxCalls == 6
MaxRoutes == 2
MaxPathLen == 4
MaxHostLen == 3
MaxRuntimes == 3
MaxLimit == 1

\* The tasks that may call select() on the same balancer.
Selectors == {"s1", "s2"}

\* The admin API calls of POST /api/v1/reload that may overlap, and the
\* request tasks that may be in flight together.
Reloaders == {"r1", "r2"}
Requests == {"q1", "q2"}

(***************************************************************************)
(* Option<T>: None is the empty sequence, Some(x) the one-element one.     *)
(***************************************************************************)
None == <<>>
Some(x) == <<x>>
IsSome(o) == Len(o) = 1
Unwrap(o) == o[1]

(***************************************************************************)
(* str helpers (std)                                                       *)
(***************************************************************************)
StartsWith(s, p) == Len(p) <= Len(s) /\ SubSeq(s, 1, Len(p)) = p
EndsWith(s, p) == Len(p) <= Len(s) /\ SubSeq(s, Len(s) - Len(p) + 1, Len(s)) = p

RECURSIVE StringsOfLen(_, _)
StringsOfLen(chars, n) ==
    IF n = 0 THEN {""}
    ELSE {s \o c : s \in StringsOfLen(chars, n - 1), c \in chars}

StringsUpTo(chars, n) == UNION {StringsOfLen(chars, k) : k \in 0..n}

(***************************************************************************)
(* load_balancer/mod.rs                                                    *)
(***************************************************************************)
UpstreamNames == <<"server1", "server2", "server3", "server4">>

\* The upstream lists a service can be configured with: entry i is named
\* UpstreamNames[i] and carries any weight in 0..MaxWeight.
UpstreamLists ==
    UNION {
        {[i \in 1..n |-> [target |-> UpstreamNames[i], weight |-> w[i]]] :
            w \in [1..n -> 0..MaxWeight]}
        : n \in 0..MaxUpstreams}

\* The inner loop of new(), lines 24-26: `for _ in 0..server.weight`.
RECURSIVE ReplicateInclusive(_, _)
ReplicateInclusive(v, n) == IF n = 0 THEN <<v>> ELSE <<v>> \o ReplicateInclusive(v, n - 1)

RECURSIVE Replicate(_, _)
Replicate(v, n) == IF n = 0 THEN <<>> ELSE <<v>> \o Replicate(v, n - 1)

\* WeightedRoundRobin::new: index i (0-based) pushed weight-many times, in order.
RECURSIVE WeightedFrom(_, _)
WeightedFrom(servers, i) ==
    IF i > Len(servers) THEN <<>>
    ELSE Replicate(i - 1, servers[i].weight) \o WeightedFrom(servers, i + 1)

Weighted(servers) == WeightedFrom(servers, 1)

weighted == Weighted(upstreams)

\* The closure handed to fetch_update at line 47.
NextCursorStuck(x, len) == x
NextCursorNoWrap(x, len) == x + 1
NextCursor(x, len) == (x + 1) % len

CallsStarted == Len(results) + Cardinality({s \in Selectors : sel_pc[s] = "loaded"})

\* The balancer is not in play: an empty pool nobody calls.
LBIdle ==
    /\ upstreams = <<>>
    /\ next_index = 0
    /\ sel_pc = [s \in Selectors |-> "idle"]
    /\ sel_index = [s \in Selectors |-> 0]
    /\ results = <<>>

\* The router is not in play: no routes, no lookup.
RouterIdle ==
    /\ http = <<>>
    /\ req = [host |-> "", path |-> "", listener |-> ""]
    /\ route_result = <<>>

\* The gateway is not in play: no runtime, no reload, no request.
GatewayIdle ==
    /\ gateway_state = 0
    /\ runtimes = <<>>
    /\ rl = [r \in Reloaders |-> <<>>]
    /\ rq = [q \in Requests |-> <<>>]

\* No chain is being run.
ChainIdle ==
    /\ chain_in = <<>>
    /\ chain_out = <<>>

\* No rate limiter is in play: an empty store nobody calls.
RateIdle ==
    /\ store = <<>>
    /\ now = 0
    /\ rt = <<>>
    /\ hist = <<>>

\* No listener is in play.
ListenIdle ==
    /\ cancel_token = FALSE
    /\ accept_loops = <<>>
    /\ conns = <<>>
    /\ process = <<>>

InitLB ==
    /\ ListenIdle
    /\ RouterIdle
    /\ GatewayIdle
    /\ ChainIdle
    /\ RateIdle
    /\ upstreams \in UpstreamLists
    /\ next_index = 0
    /\ sel_pc = [s \in Selectors |-> "idle"]
    /\ sel_index = [s \in Selectors |-> 0]
    /\ results = <<>>

\* select(), lines 39-41: nothing to choose from.
SelectNone(s) ==
    /\ sel_pc[s] = "idle"
    /\ CallsStarted < MaxCalls
    /\ Len(weighted) = 0
    /\ results' = Append(results, None)
    /\ UNCHANGED <<upstreams, sel_pc, sel_index, next_index, router_vars, gw_vars, chain_vars, rate_vars, listen_vars>>

\* select(), lines 43-44: load the cursor and read weighted[cursor].
SelectLoad(s) ==
    /\ sel_pc[s] = "idle"
    /\ CallsStarted < MaxCalls
    /\ Len(weighted) > 0
    /\ sel_index' = [sel_index EXCEPT ![s] = weighted[next_index + 1]]
    /\ sel_pc' = [sel_pc EXCEPT ![s] = "loaded"]
    /\ UNCHANGED <<upstreams, next_index, results, router_vars, gw_vars, chain_vars, rate_vars, listen_vars>>

\* select(), lines 45-50: the atomic fetch_update, then return the upstream
\* whose index was read before it.
SelectAdvance(s) ==
    /\ sel_pc[s] = "loaded"
    /\ next_index' = NextCursor(next_index, Len(weighted))
    /\ results' = Append(results, Some(upstreams[sel_index[s] + 1]))
    /\ sel_pc' = [sel_pc EXCEPT ![s] = "idle"]
    /\ sel_index' = [sel_index EXCEPT ![s] = 0]
    /\ UNCHANGED <<upstreams, router_vars, gw_vars, chain_vars, rate_vars, listen_vars>>

Select(s) == SelectNone(s) \/ SelectLoad(s) \/ SelectAdvance(s)

\* Any number of tasks calling select() concurrently.
NextLB == \E s \in Selectors : Select(s)

SpecLB == InitLB /\ [][NextLB]_vars

\* select() called one call at a time: a call starts only when no other is
\* in progress.
NextLBSeq ==
    \E s \in Selectors :
        /\ \A o \in Selectors \ {s} : sel_pc[o] = "idle"
        /\ Select(s)

SpecLBSeq == InitLB /\ [][NextLBSeq]_vars

(***************************************************************************)
(* Load balancer claims                                                    *)
(***************************************************************************)
TotalWeight == Len(weighted)

CountIn(seq, v) == Cardinality({k \in DOMAIN seq : seq[k] = v})

\* The upstream the k-th call (k = 0, 1, ...) of the cyclic sequence yields.
CyclicUpstream(k) == upstreams[weighted[(k % TotalWeight) + 1] + 1]

CyclicPrefix(n) == [k \in 1..n |-> Some(CyclicUpstream(k - 1))]

\* C4: with select() called one call at a time and a positive total weight
\* S, the k-th call returns upstreams[weighted[k mod S]]; the results are
\* periodic with period S, every S consecutive calls return upstream i
\* exactly w_i times, and the first m*S calls return it m*w_i times, which
\* lies within ceil(N*w_i/S) and floor(N*w_i/S) + 1.
C4_SequentialCycle ==
    TotalWeight > 0 =>
        /\ \A k \in 1..Len(results) : results[k] = Some(CyclicUpstream(k - 1))
        /\ \A k \in 1..(Len(results) - TotalWeight) :
                results[k + TotalWeight] = results[k]
        /\ \A j \in 0..(Len(results) - TotalWeight) :
                \A i \in 1..Len(upstreams) :
                    CountIn(SubSeq(results, j + 1, j + TotalWeight), Some(upstreams[i]))
                        = upstreams[i].weight
        /\ \A m \in 1..MaxCalls :
                m * TotalWeight <= Len(results) =>
                    \A i \in 1..Len(upstreams) :
                        LET n == m * TotalWeight
                            c == CountIn(SubSeq(results, 1, n), Some(upstreams[i]))
                            q == (n * upstreams[i].weight) \div TotalWeight
                        IN  /\ c = m * upstreams[i].weight
                            /\ c >= q
                            /\ c <= q + 1

\* Two full periods of a balancer with weights 2 and 1 have been returned.
C4_Witness ==
    /\ Len(upstreams) = 2
    /\ upstreams[1].weight = 2
    /\ upstreams[2].weight = 1
    /\ Len(results) = 2 * TotalWeight

\* C5: whenever no select() is in progress, the completed calls returned,
\* as a multiset, the first n elements of the cyclic sequence.
C5_ConcurrentInterleaving ==
    (TotalWeight > 0 /\ \A s \in Selectors : sel_pc[s] = "idle") =>
        \A i \in 1..Len(upstreams) :
            CountIn(results, Some(upstreams[i]))
                = CountIn(CyclicPrefix(Len(results)), Some(upstreams[i]))

AllWeightsZero == \A i \in 1..Len(upstreams) : upstreams[i].weight = 0

\* C6: with no upstreams, or only zero weights, every select() returns
\* nothing and the cursor stays where new() put it.
C6_EmptyPoolYieldsNothing ==
    AllWeightsZero =>
        /\ next_index = 0
        /\ \A k \in 1..Len(results) : results[k] = None

\* Two zero-weight upstreams, and both callers were answered more than once.
C6_Witness ==
    /\ Len(upstreams) = 2
    /\ AllWeightsZero
    /\ Len(results) >= 3

(***************************************************************************)
(* router.rs                                                               *)
(***************************************************************************)
\* str::strip_prefix
StripPrefix(s, p) ==
    IF StartsWith(s, p) THEN Some(SubSeq(s, Len(p) + 1, Len(s))) ELSE None

\* Router::match_listener, lines 124-126.
match_listener(listener, router_listeners) ==
    \E i \in DOMAIN router_listeners : router_listeners[i] = listener

\* One turn of the loop of match_host, lines 98-104.
HostEntryMatchesNoNeq(host, rh) ==
    LET suffix == StripPrefix(rh, "*.")
    IN  IF IsSome(suffix)
        THEN EndsWith(host, Unwrap(suffix))
        ELSE rh = host

HostEntryMatches(host, rh) ==
    LET suffix == StripPrefix(rh, "*.")
    IN  IF IsSome(suffix)
        THEN EndsWith(host, Unwrap(suffix)) /\ host # Unwrap(suffix)
        ELSE rh = host

\* Router::match_host, lines 96-108: true at the first entry that matches.
match_host(host, router_hosts) ==
    \E i \in DOMAIN router_hosts : HostEntryMatches(host, router_hosts[i])

\* Router::match_path, lines 110-122.
match_path_prefix(path, router_path) ==
    IF EndsWith(router_path, "/*")
    THEN LET prefix == SubSeq(router_path, 1, Len(router_path) - 1)
         IN  IF EndsWith(path, "/")
             THEN StartsWith(path, prefix)
             ELSE StartsWith(path, SubSeq(prefix, 1, Len(prefix) - 1))
    ELSE StartsWith(path, router_path)

match_path(path, router_path) ==
    IF EndsWith(router_path, "/*")
    THEN LET prefix == SubSeq(router_path, 1, Len(router_path) - 1)
         IN  IF EndsWith(path, "/")
             THEN StartsWith(path, prefix)
             ELSE StartsWith(path, SubSeq(prefix, 1, Len(prefix) - 1))
    ELSE path = router_path \/ path = router_path \o "/"

\* The filter closure of get_route, lines 59-75.
RouteMatchesAnyListener(route, host, path, listener) ==
    LET matches_host ==
            IF IsSome(route.hosts) THEN match_host(host, Unwrap(route.hosts)) ELSE TRUE
        matches_path ==
            IF IsSome(route.path) THEN match_path(path, Unwrap(route.path)) ELSE TRUE
    IN  matches_host /\ matches_path

RouteMatches(route, host, path, listener) ==
    LET matches_listener == match_listener(listener, route.listeners)
        matches_host ==
            IF IsSome(route.hosts) THEN match_host(host, Unwrap(route.hosts)) ELSE TRUE
        matches_path ==
            IF IsSome(route.path) THEN match_path(path, Unwrap(route.path)) ELSE TRUE
    IN  matches_listener /\ matches_host /\ matches_path

\* The key closure of get_route, lines 76-85.
ScoreHostsOnly(route) == IF IsSome(route.hosts) THEN 1 ELSE 0

Score(route) ==
    (IF IsSome(route.hosts) THEN 1 ELSE 0) + (IF IsSome(route.path) THEN 1 ELSE 0)

\* Iterator::filter over Router.http: the positions that pass, in order.
RECURSIVE FilterRoutes(_, _, _, _, _)
FilterRoutes(routes, i, host, path, listener) ==
    IF i > Len(routes) THEN <<>>
    ELSE (IF RouteMatches(routes[i], host, path, listener) THEN <<i>> ELSE <<>>)
            \o FilterRoutes(routes, i + 1, host, path, listener)

\* Iterator::max_by_key: a fold that keeps the later element unless the
\* earlier one has a strictly larger key.
RECURSIVE MaxByKeyFold(_, _, _, _)
MaxByKeyFold(routes, cands, k, best) ==
    IF k > Len(cands) THEN best
    ELSE MaxByKeyFold(routes, cands, k + 1,
            IF Score(routes[best]) > Score(routes[cands[k]]) THEN best ELSE cands[k])

MaxByKey(routes, cands) ==
    IF Len(cands) = 0 THEN None ELSE Some(MaxByKeyFold(routes, cands, 2, cands[1]))

Ok(v) == [ok |-> TRUE, value |-> v, err |-> ""]
Err(e) == [ok |-> FALSE, value |-> 0, err |-> e]

\* Router::get_route, lines 55-88. The route returned is named by its
\* position in Router.http.
get_route(routes, host, path, listener) ==
    LET route == MaxByKey(routes, FilterRoutes(routes, 1, host, path, listener))
    IN  IF IsSome(route) THEN Ok(Unwrap(route)) ELSE Err("NotFound")

\* One lookup on the router, for the request at hand.
GetRoute ==
    /\ route_result = None
    /\ route_result' = Some(get_route(http, req.host, req.path, req.listener))
    /\ UNCHANGED <<http, req, lb_vars, gw_vars, chain_vars, rate_vars, listen_vars>>

(***************************************************************************)
(* Routers of a few declared routes, looked up with a few requests         *)
(***************************************************************************)
MkRoute(hosts, path, listeners, service, middlewares) ==
    [hosts |-> hosts, path |-> path, listeners |-> listeners,
     service |-> service, middlewares |-> middlewares]

ListenerNames == {"http-main", "internal-http"}

RouteHostsPool ==
    {None, Some(<<"api.example.com">>), Some(<<"api.example.com", "*.api.example.com">>)}

RoutePathPool == {None, Some("/v1/*"), Some("/new")}

RouteListenersPool == {<<"http-main">>, <<"http-main", "internal-http">>}

\* Config validation keeps out a route with neither hosts nor path.
RoutePool ==
    {MkRoute(h, p, l, IF IsSome(h) THEN "user-service" ELSE "auth-service", <<>>) :
        h \in RouteHostsPool, p \in RoutePathPool, l \in RouteListenersPool}
    \ {r \in [hosts : {None}, path : {None}, listeners : RouteListenersPool,
              service : {"auth-service"}, middlewares : {<<>>}] : TRUE}

RouterPool == UNION {[1..n -> RoutePool] : n \in 0..MaxRoutes}

RequestHosts == {"api.example.com", "some.api.example.com", "other.host"}
RequestPaths == {"/v1/x", "/v1", "/new", "/new/", "/other"}

InitRouter ==
    /\ ListenIdle
    /\ LBIdle
    /\ GatewayIdle
    /\ ChainIdle
    /\ RateIdle
    /\ http \in RouterPool
    /\ req \in [host : RequestHosts, path : RequestPaths, listener : ListenerNames]
    /\ route_result = None

NextRouter == GetRoute

SpecRouter == InitRouter /\ [][NextRouter]_vars

(***************************************************************************)
(* One-route routers over every short pattern, for the matchers            *)
(***************************************************************************)
PathChars == {"/", "a"}
PatternChars == {"/", "a", "*"}
HostChars == {".", "a"}
HostPatternChars == {".", "a", "*"}

PathExamples == {"/v1", "/v1/", "/v1/x", "/v1/x/y", "/v10"}
HostExamples == {"a.example.com", "example.com", "some.api.example.com", "evilexample.com"}

\* A request path starts with "/".
AllPaths ==
    {p \in StringsUpTo(PathChars, MaxPathLen) : StartsWith(p, "/")} \cup PathExamples
AllPathPatterns == StringsUpTo(PatternChars, MaxPathLen) \cup {"/v1/*"}
AllHosts == StringsUpTo(HostChars, MaxHostLen) \cup HostExamples
AllHostPatterns == StringsUpTo(HostPatternChars, MaxHostLen) \cup {"*.example.com"}
SecondHostPatterns == {"a", "*.a", "*.api.example.com"}

MatchRouterPool ==
    {<<MkRoute(None, Some(p), <<"http-main">>, "auth-service", <<>>)>> : p \in AllPathPatterns}
    \cup {<<MkRoute(Some(<<h>>), None, <<"http-main">>, "user-service", <<>>)>> :
            h \in AllHostPatterns}
    \cup {<<MkRoute(Some(<<h, g>>), None, <<"http-main">>, "user-service", <<>>)>> :
            h \in AllHostPatterns, g \in SecondHostPatterns}

\* Every short path on one host, and every short host on one path.
MatchRequests ==
    {[host |-> "a", path |-> p, listener |-> "http-main"] : p \in AllPaths}
    \cup {[host |-> h, path |-> "/a", listener |-> "http-main"] : h \in AllHosts}

InitMatch ==
    /\ ListenIdle
    /\ LBIdle
    /\ GatewayIdle
    /\ ChainIdle
    /\ RateIdle
    /\ http \in MatchRouterPool
    /\ req \in MatchRequests
    /\ route_result = None

NextMatch == GetRoute

SpecMatch == InitMatch /\ [][NextMatch]_vars

(***************************************************************************)
(* config.rs: GatewayConfig, validate, load_config                         *)
(***************************************************************************)
MapGet(m, k) == IF k \in DOMAIN m THEN Some(m[k]) ELSE None

MkUpstream(target, weight) == [target |-> target, weight |-> weight]

MainListener == [name |-> "http-main", addr |-> "0.0.0.0:3000", protocol |-> "http"]
InternalListener == [name |-> "internal-http", addr |-> "127.0.0.1:8080", protocol |-> "http"]
TlsListener == [name |-> "https-main", addr |-> "0.0.0.0:3443", protocol |-> "https"]

DefaultTls == [cert_file |-> "cert.pem", key_file |-> "key.pem", default |-> TRUE]
ExtraTls == [cert_file |-> "cert2.pem", key_file |-> "key2.pem", default |-> FALSE]

AddPrefixApi == [kind |-> "add_prefix", prefix |-> "/api", limit |-> 0, period |-> 0]
RateLimitTwo == [kind |-> "rate_limit", prefix |-> "", limit |-> 2, period |-> 60]

MkRouteConfig(hosts, path, listeners, service, middlewares) ==
    [hosts |-> hosts, path |-> path, listeners |-> listeners,
     service |-> service, middlewares |-> middlewares]

ApiRoute(middlewares) ==
    MkRouteConfig(Some(<<"api.example.com">>), Some("/v1/*"), <<"http-main">>, "u", middlewares)

\* http sections: the one applied at startup, one that changes only
\* http.services, and one that changes the route's middlewares and the
\* middleware map.
HttpStartup ==
    [middlewares |-> ("prefix" :> AddPrefixApi),
     services |-> ("u" :> [upstreams |-> <<MkUpstream("http://old:5000", 1)>>]),
     routes |-> <<ApiRoute(Some(<<"prefix">>))>>]

HttpNewServices ==
    [middlewares |-> ("prefix" :> AddPrefixApi),
     services |-> ("u" :> [upstreams |-> <<MkUpstream("http://drained:5000", 0),
                                          MkUpstream("http://new1:5000", 1),
                                          MkUpstream("http://new2:5000", 1)>>]),
     routes |-> <<ApiRoute(Some(<<"prefix">>))>>]

HttpNewRoutes ==
    [middlewares |-> ("rl" :> RateLimitTwo),
     services |-> ("u" :> [upstreams |-> <<MkUpstream("http://old:5000", 1)>>]),
     routes |-> <<ApiRoute(Some(<<"rl">>))>>]

\* http sections validate() rejects.
HttpUndefinedService ==
    [middlewares |-> ("prefix" :> AddPrefixApi),
     services |-> ("u" :> [upstreams |-> <<MkUpstream("http://old:5000", 1)>>]),
     routes |-> <<MkRouteConfig(None, Some("/new"), <<"http-main">>, "missing", None)>>]

HttpUndefinedMiddleware ==
    [middlewares |-> ("prefix" :> AddPrefixApi),
     services |-> ("u" :> [upstreams |-> <<MkUpstream("http://old:5000", 1)>>]),
     routes |-> <<ApiRoute(Some(<<"rl">>))>>]

MkConfig(version, admin_api, log, access_log, tls, listeners, http_config) ==
    [version |-> version, admin_api |-> admin_api, log |-> log, access_log |-> access_log,
     tls |-> tls, listeners |-> listeners, http |-> http_config]

DefaultLog == [level |-> "INFO", format |-> "compact", file_path |-> "stdout"]
DefaultAccessLog == [enabled |-> TRUE, format |-> "compact", file_path |-> "stdout"]

WithHttp(http_config) ==
    MkConfig(1, "127.0.0.1:5678", DefaultLog, DefaultAccessLog, None, <<MainListener>>,
             http_config)

\* The config applied at startup.
StartupConfig == WithHttp(HttpStartup)

\* What the config file may hold when a reload reads it: the startup config
\* with a new http section, with one static field changed, or with
\* something validate() rejects.
ReloadableConfigs == {WithHttp(h) : h \in {HttpNewServices, HttpNewRoutes}}

StaticChangedConfigs ==
    {[WithHttp(HttpNewServices) EXCEPT !.admin_api = "127.0.0.1:9999"],
     [WithHttp(HttpNewServices) EXCEPT !.log = [level |-> "DEBUG", format |-> "compact",
                                                 file_path |-> "stdout"]],
     [WithHttp(HttpNewServices) EXCEPT !.access_log = [enabled |-> FALSE, format |-> "compact",
                                                        file_path |-> "stdout"]],
     [WithHttp(HttpNewServices) EXCEPT !.tls = Some(<<DefaultTls>>)],
     [WithHttp(HttpNewServices) EXCEPT !.listeners = <<MainListener, InternalListener>>]}

InvalidConfigs ==
    {[WithHttp(HttpNewServices) EXCEPT !.version = 2],
     [WithHttp(HttpNewServices) EXCEPT !.tls = Some(<<ExtraTls>>)],
     [WithHttp(HttpNewServices) EXCEPT !.listeners = <<MainListener, MainListener>>],
     [WithHttp(HttpNewServices) EXCEPT !.listeners = <<MainListener, TlsListener>>],
     WithHttp(HttpUndefinedService),
     WithHttp(HttpUndefinedMiddleware)}

\* A file either deserializes into a GatewayConfig or does not.
ConfigFiles ==
    {[parses |-> TRUE, cfg |-> c] :
        c \in ReloadableConfigs \cup StaticChangedConfigs \cup InvalidConfigs}
    \cup {[parses |-> FALSE, cfg |-> StartupConfig]}

\* validate(), lines 42-56: the loop over listeners.
RECURSIVE ValidateListeners(_, _, _)
ValidateListeners(cfg, i, seen_listeners) ==
    IF i > Len(cfg.listeners) THEN Ok(seen_listeners)
    ELSE LET listener == cfg.listeners[i]
         IN  IF listener.name \in seen_listeners
             THEN Err("Duplicate listener name")
             ELSE IF listener.protocol = "https" /\ ~IsSome(cfg.tls)
             THEN Err("TLS config is required to spawn listener")
             ELSE ValidateListeners(cfg, i + 1, seen_listeners \cup {listener.name})

\* validate(), lines 66-91: the loop over http.routes.
RECURSIVE ValidateRoutes(_, _, _)
ValidateRoutesSkipMiddlewares(cfg, i, seen_listeners) ==
    IF i > Len(cfg.http.routes) THEN Ok(0)
    ELSE LET route == cfg.http.routes[i]
         IN  IF ~IsSome(route.hosts) /\ ~IsSome(route.path)
             THEN Err("At least one of hosts or path is required")
             ELSE IF \E k \in DOMAIN route.listeners : route.listeners[k] \notin seen_listeners
             THEN Err("Undefined listener")
             ELSE IF route.service \notin DOMAIN cfg.http.services
             THEN Err("Undefined service")
             ELSE ValidateRoutes(cfg, i + 1, seen_listeners)

ValidateRoutes(cfg, i, seen_listeners) ==
    IF i > Len(cfg.http.routes) THEN Ok(0)
    ELSE LET route == cfg.http.routes[i]
         IN  IF ~IsSome(route.hosts) /\ ~IsSome(route.path)
             THEN Err("At least one of hosts or path is required")
             ELSE IF \E k \in DOMAIN route.listeners : route.listeners[k] \notin seen_listeners
             THEN Err("Undefined listener")
             ELSE IF route.service \notin DOMAIN cfg.http.services
             THEN Err("Undefined service")
             ELSE IF /\ IsSome(route.middlewares)
                     /\ \E k \in DOMAIN Unwrap(route.middlewares) :
                            Unwrap(route.middlewares)[k] \notin DOMAIN cfg.http.middlewares
             THEN Err("Middleware is not defined")
             ELSE ValidateRoutes(cfg, i + 1, seen_listeners)

\* validate(), lines 34-35: how many TLS entries are marked default, and
\* whether that count passes.
TlsDefaultCount(tls_config) ==
    Cardinality({k \in DOMAIN tls_config : tls_config[k].default})

tls_default_at_most_one(tls_config) == TlsDefaultCount(tls_config) <= 1

tls_default_ok(tls_config) == TlsDefaultCount(tls_config) = 1

\* GatewayConfig::validate, lines 27-94.
validate(cfg) ==
    IF cfg.version # 1 THEN Err("version value must be 1")
    ELSE IF IsSome(cfg.tls) /\ ~tls_default_ok(Unwrap(cfg.tls))
    THEN Err("Exactly one TLS config must be marked as default")
    ELSE LET listeners == ValidateListeners(cfg, 1, {})
         IN  IF ~listeners.ok THEN listeners
             ELSE ValidateRoutes(cfg, 1, listeners.value)

\* load_config, lines 268-279.
load_config(file) ==
    IF ~file.parses THEN Err("config file could not be deserialized")
    ELSE LET checked == validate(file.cfg)
         IN  IF checked.ok THEN Ok(file.cfg) ELSE checked

\* static_config_same, lines 302-309.
static_config_same_no_listeners(previous, new) ==
    /\ previous.version = new.version
    /\ previous.admin_api = new.admin_api
    /\ previous.log = new.log
    /\ previous.access_log = new.access_log
    /\ previous.tls = new.tls

static_config_same(previous, new) ==
    /\ previous.version = new.version
    /\ previous.admin_api = new.admin_api
    /\ previous.log = new.log
    /\ previous.access_log = new.access_log
    /\ previous.tls = new.tls
    /\ previous.listeners = new.listeners

(***************************************************************************)
(* service.rs, gateway_runtime.rs                                          *)
(***************************************************************************)
\* Service::new over WeightedRoundRobin::new: the pool and a cursor at 0.
ServiceNew(service_upstreams) == [upstreams |-> service_upstreams, next_index |-> 0]

\* ServiceRegistry::init, lines 25-41 (http services).
ServiceRegistryInit(cfg) ==
    [name \in DOMAIN cfg.http.services |-> ServiceNew(cfg.http.services[name].upstreams)]

\* Router::new, lines 32-53.
RouterNew(cfg) ==
    [i \in 1..Len(cfg.http.routes) |->
        LET route == cfg.http.routes[i]
        IN  MkRoute(route.hosts, route.path, route.listeners, route.service,
                    IF IsSome(route.middlewares) THEN Unwrap(route.middlewares) ELSE <<>>)]

\* GatewayRuntime::new, lines 12-19.
GatewayRuntimeNew(cfg) ==
    [router |-> RouterNew(cfg),
     service_registry |-> ServiceRegistryInit(cfg),
     applied_config |-> cfg]

(***************************************************************************)
(* config.rs reload_config, api.rs reload_config_from_file                 *)
(***************************************************************************)
ReloadIdle(result) == [pc |-> "idle", cfg |-> None, result |-> result]

\* How many runtimes exist once the reloads past their check have stored.
RuntimesCommitted == Len(runtimes) + Cardinality({r \in Reloaders : rl[r].pc = "checked"})

\* reload_config, lines 282-292: read and validate the file, load the shared
\* reference and compare the static fields; both failures return Err.
ReloadCheckSkipsStatic(r, file) ==
    /\ rl[r].pc = "idle"
    /\ RuntimesCommitted < MaxRuntimes
    /\ LET cfg == load_config(file)
       IN  rl' = [rl EXCEPT ![r] =
                IF ~cfg.ok THEN ReloadIdle(Some(cfg))
                ELSE [pc |-> "checked", cfg |-> Some(cfg.value), result |-> None]]
    /\ UNCHANGED <<gateway_state, runtimes, rq, lb_vars, router_vars, chain_vars, rate_vars, listen_vars>>

ReloadCheck(r, file) ==
    /\ rl[r].pc = "idle"
    /\ RuntimesCommitted < MaxRuntimes
    /\ LET cfg == load_config(file)
           current_state == runtimes[gateway_state]
       IN  rl' = [rl EXCEPT ![r] =
                IF ~cfg.ok THEN ReloadIdle(Some(cfg))
                ELSE IF ~static_config_same(current_state.applied_config, cfg.value)
                THEN ReloadIdle(Some(Err("Static fields of config has changed, config not applied")))
                ELSE [pc |-> "checked", cfg |-> Some(cfg.value), result |-> None]]
    /\ UNCHANGED <<gateway_state, runtimes, rq, lb_vars, router_vars, chain_vars, rate_vars, listen_vars>>

\* reload_config, lines 294-299: build the new runtime and store it.
ReloadStoreKeepsCursors(r) ==
    /\ rl[r].pc = "checked"
    /\ LET built == GatewayRuntimeNew(Unwrap(rl[r].cfg))
           previous == runtimes[gateway_state].service_registry
           kept == [name \in DOMAIN built.service_registry |->
                        IF /\ name \in DOMAIN previous
                           /\ previous[name].upstreams = built.service_registry[name].upstreams
                        THEN previous[name] ELSE built.service_registry[name]]
       IN  runtimes' = Append(runtimes, [built EXCEPT !.service_registry = kept])
    /\ gateway_state' = Len(runtimes) + 1
    /\ rl' = [rl EXCEPT ![r] = ReloadIdle(Some(Ok(0)))]
    /\ UNCHANGED <<rq, lb_vars, router_vars, chain_vars, rate_vars, listen_vars>>

ReloadStore(r) ==
    /\ rl[r].pc = "checked"
    /\ runtimes' = Append(runtimes, GatewayRuntimeNew(Unwrap(rl[r].cfg)))
    /\ gateway_state' = Len(runtimes) + 1
    /\ rl' = [rl EXCEPT ![r] = ReloadIdle(Some(Ok(0)))]
    /\ UNCHANGED <<rq, lb_vars, router_vars, chain_vars, rate_vars, listen_vars>>

(***************************************************************************)
(* server/http.rs handle_client                                            *)
(***************************************************************************)
RequestIdle ==
    [pc |-> "idle", host |-> "", path |-> "", listener |-> "", snap |-> 0,
     route |-> None, upstream_index |-> 0, upstream |-> None, middlewares |-> <<>>,
     status |-> 0, route_from |-> 0, upstream_from |-> 0, mw_from |-> 0,
     request |-> None, outcome |-> None, advances |-> 0]

\* error.rs RouterError::status_code, lines 14-21.
status_code_unavailable(err) == 503

status_code(err) ==
    CASE err = "NotFound" -> 404
      [] err = "MethodNotAllowed" -> 405
      [] err = "NoUpstream" -> 503

\* line 93: what load() on the shared reference yields.
PreviousRuntime == IF gateway_state > 1 THEN gateway_state - 1 ELSE gateway_state
LoadedRuntime == gateway_state

\* line 94: the runtime whose applied config the request reads.
CurrentRuntime(q) == gateway_state
ConfigRuntime(q) == rq[q].snap

\* line 95: the runtime whose router and service registry the request uses.
RouterRuntime(q) == rq[q].snap

\* lines 80-93: take the host and path, load the shared reference.
RequestLoad(q, host, path, listener) ==
    /\ rq[q].pc = "idle"
    /\ rq' = [rq EXCEPT ![q] = [RequestIdle EXCEPT
                !.pc = "loaded", !.host = host, !.path = path, !.listener = listener,
                !.snap = LoadedRuntime]]
    /\ UNCHANGED <<gateway_state, runtimes, rl, lb_vars, router_vars, chain_vars, rate_vars, listen_vars>>

\* lines 96-97 and 127-138: route the request, or answer 404.
RequestRoute(q) ==
    /\ rq[q].pc = "loaded"
    /\ LET router == runtimes[RouterRuntime(q)].router
           found == get_route(router, rq[q].host, rq[q].path, rq[q].listener)
       IN  rq' = [rq EXCEPT ![q] =
                IF found.ok
                THEN [@ EXCEPT !.pc = "routed", !.route = Some(router[found.value]),
                               !.route_from = RouterRuntime(q)]
                ELSE [@ EXCEPT !.pc = "done", !.status = status_code(found.err)]]
    /\ UNCHANGED <<gateway_state, runtimes, rl, lb_vars, router_vars, chain_vars, rate_vars, listen_vars>>

\* lines 98-99 and 120-125, into select() lines 39-44: look the service up
\* and read its cursor, or answer 503.
RequestSelectLoad(q) ==
    /\ rq[q].pc = "routed"
    /\ LET service == MapGet(runtimes[RouterRuntime(q)].service_registry,
                             Unwrap(rq[q].route).service)
       IN  rq' = [rq EXCEPT ![q] =
                IF IsSome(service) /\ Len(Weighted(Unwrap(service).upstreams)) > 0
                THEN [@ EXCEPT !.pc = "selecting",
                               !.upstream_index =
                                    Weighted(Unwrap(service).upstreams)[Unwrap(service).next_index + 1]]
                ELSE [@ EXCEPT !.pc = "done", !.status = 503]]
    /\ UNCHANGED <<gateway_state, runtimes, rl, lb_vars, router_vars, chain_vars, rate_vars, listen_vars>>

\* select() lines 45-50: advance the service's cursor, return the upstream.
\* `advances` counts the cursor advances made for the request.
RequestSelectPeeks(q) ==
    /\ rq[q].pc = "selecting"
    /\ LET i == RouterRuntime(q)
           name == Unwrap(rq[q].route).service
           service == runtimes[i].service_registry[name]
       IN  /\ runtimes' = runtimes
           /\ rq' = [rq EXCEPT ![q] = [@ EXCEPT
                        !.pc = "resolved",
                        !.upstream = Some(service.upstreams[rq[q].upstream_index + 1]),
                        !.upstream_from = i]]
    /\ UNCHANGED <<gateway_state, rl, lb_vars, router_vars, chain_vars, rate_vars, listen_vars>>

RequestSelectAdvance(q) ==
    /\ rq[q].pc = "selecting"
    /\ LET i == RouterRuntime(q)
           name == Unwrap(rq[q].route).service
           service == runtimes[i].service_registry[name]
       IN  /\ runtimes' = [runtimes EXCEPT ![i].service_registry[name].next_index =
                                NextCursor(@, Len(Weighted(service.upstreams)))]
           /\ rq' = [rq EXCEPT ![q] = [@ EXCEPT
                        !.pc = "resolved",
                        !.upstream = Some(service.upstreams[rq[q].upstream_index + 1]),
                        !.upstream_from = i,
                        !.advances = @ + 1]]
    /\ UNCHANGED <<gateway_state, rl, lb_vars, router_vars, chain_vars, rate_vars, listen_vars>>

\* lines 100-107: fetch each of the route's middleware configs by name from
\* the applied config; unwrap() panics on a name that is not there.
RequestBuildChain(q) ==
    /\ rq[q].pc = "resolved"
    /\ LET named_middlewares == Unwrap(rq[q].route).middlewares
           middleware_configs == runtimes[ConfigRuntime(q)].applied_config.http.middlewares
           looked_up == [k \in 1..Len(named_middlewares) |->
                            MapGet(middleware_configs, named_middlewares[k])]
       IN  rq' = [rq EXCEPT ![q] =
                IF \A k \in 1..Len(looked_up) : IsSome(looked_up[k])
                THEN [@ EXCEPT !.pc = "running",
                               !.middlewares = [k \in 1..Len(looked_up) |-> Unwrap(looked_up[k])],
                               !.mw_from = ConfigRuntime(q)]
                ELSE [@ EXCEPT !.pc = "panicked", !.mw_from = ConfigRuntime(q)]]
    /\ UNCHANGED <<gateway_state, runtimes, rl, lb_vars, router_vars, chain_vars, rate_vars, listen_vars>>

\* The task ends: the chain returned a response, a status was answered, or
\* the task panicked.
RequestFinish(q) ==
    /\ rq[q].pc \in {"running", "done", "panicked"}
    /\ rq' = [rq EXCEPT ![q] = RequestIdle]
    /\ UNCHANGED <<gateway_state, runtimes, rl, lb_vars, router_vars, chain_vars, rate_vars, listen_vars>>

\* The requests clients send: one the startup route matches, one on
\* another host, one on another path.
ClientRequests ==
    {[host |-> "api.example.com", path |-> "/v1/x", listener |-> "http-main"],
     [host |-> "other.host", path |-> "/v1/x", listener |-> "http-main"]}

\* main: the runtime built from the validated startup config.
Init ==
    /\ ListenIdle
    /\ LBIdle
    /\ RouterIdle
    /\ ChainIdle
    /\ RateIdle
    /\ runtimes = <<GatewayRuntimeNew(StartupConfig)>>
    /\ gateway_state = 1
    /\ rl = [r \in Reloaders |-> ReloadIdle(None)]
    /\ rq = [q \in Requests |-> RequestIdle]

\* The gateway with the request tasks `requests` in flight and the admin
\* reload calls `reloaders` overlapping.
GatewayNext(requests, reloaders) ==
    \/ \E r \in reloaders, file \in ConfigFiles : ReloadCheck(r, file)
    \/ \E r \in reloaders : ReloadStore(r)
    \/ \E q \in requests, c \in ClientRequests : RequestLoad(q, c.host, c.path, c.listener)
    \/ \E q \in requests : RequestRoute(q)
    \/ \E q \in requests : RequestSelectLoad(q)
    \/ \E q \in requests : RequestSelectAdvance(q)
    \/ \E q \in requests : RequestBuildChain(q)
    \/ \E q \in requests : RequestFinish(q)

\* The request plane: concurrent requests while the admin API reloads.
Next == GatewayNext(Requests, {"r1"})

Spec == Init /\ [][Next]_vars

\* The admin plane: overlapping reload calls while a request is served.
NextReload == GatewayNext({"q1"}, Reloaders)

SpecReload == Init /\ [][NextReload]_vars

(***************************************************************************)
(* Router claims                                                           *)
(***************************************************************************)
Routed == IsSome(route_result) /\ Unwrap(route_result).ok
RoutedTo == Unwrap(route_result).value
ReqMatches(route) == RouteMatches(route, req.host, req.path, req.listener)
DeclaresBoth(route) == IsSome(route.hosts) /\ IsSome(route.path)

\* C7: among the matching routes with the same precedence score, get_route
\* returns the one declared earliest.
C7_EarliestWinsTies ==
    Routed =>
        \A j \in 1..(RoutedTo - 1) :
            ~(ReqMatches(http[j]) /\ Score(http[j]) = Score(http[RoutedTo]))

RouteA ==
    MkRoute(Some(<<"api.example.com">>), Some("/v1/*"), <<"http-main">>, "user-service", <<>>)
RouteB == MkRoute(None, Some("/v1/*"), <<"http-main">>, "auth-service", <<>>)

\* C8: when a matching route declares both hosts and path, get_route
\* returns a route that declares both, wherever it was declared; with
\* A {hosts=[api.example.com], path=/v1/*} and B {path=/v1/*} in either
\* order, api.example.com/v1/x selects A and other.host/v1/x selects B.
C8_BothBeatsOne ==
    IsSome(route_result) =>
        /\ (\E j \in 1..Len(http) : ReqMatches(http[j]) /\ DeclaresBoth(http[j]))
                => (Routed /\ DeclaresBoth(http[RoutedTo]))
        /\ (http \in {<<RouteA, RouteB>>, <<RouteB, RouteA>>}
                /\ req.path = "/v1/x" /\ req.listener = "http-main")
                => /\ req.host = "api.example.com" => (Routed /\ http[RoutedTo] = RouteA)
                   /\ req.host = "other.host" => (Routed /\ http[RoutedTo] = RouteB)

\* A declared first, B second, and the request that both match went to A.
C8_Witness ==
    /\ http = <<RouteA, RouteB>>
    /\ req = [host |-> "api.example.com", path |-> "/v1/x", listener |-> "http-main"]
    /\ Routed
    /\ RoutedTo = 1

\* A router whose only route declares just a path, on the request's listener.
PathOnlyRouter ==
    /\ Len(http) = 1
    /\ ~IsSome(http[1].hosts)
    /\ IsSome(http[1].path)
    /\ match_listener(req.listener, http[1].listeners)

\* C9: a route path P + "/*" matches exactly the request paths equal to P
\* or beginning with P + "/"; "/v1/*" matches "/v1", "/v1/", "/v1/x" and
\* "/v1/x/y" and does not match "/v10".
C9_WildcardPath ==
    (IsSome(route_result) /\ PathOnlyRouter /\ EndsWith(Unwrap(http[1].path), "/*")) =>
        LET pattern == Unwrap(http[1].path)
            P == SubSeq(pattern, 1, Len(pattern) - 2)
        IN  /\ Routed <=> (req.path = P \/ StartsWith(req.path, P \o "/"))
            /\ (pattern = "/v1/*" /\ req.path \in {"/v1", "/v1/", "/v1/x", "/v1/x/y"})
                    => Routed
            /\ (pattern = "/v1/*" /\ req.path = "/v10") => ~Routed

\* A router whose only route declares just hosts, on the request's listener.
HostsOnlyRouter ==
    /\ Len(http) = 1
    /\ IsSome(http[1].hosts)
    /\ ~IsSome(http[1].path)
    /\ match_listener(req.listener, http[1].listeners)

HostEntryAccepts(entry, host) ==
    IF StartsWith(entry, "*.")
    THEN LET SUFFIX == SubSeq(entry, 3, Len(entry))
         IN  EndsWith(host, SUFFIX) /\ host # SUFFIX
    ELSE entry = host

\* C10: a host entry "*.SUFFIX" matches exactly the hosts that end with
\* SUFFIX and differ from it, any other entry only the equal host; a route
\* matches the host if one of its entries does, and any host when it
\* declares none. "*.example.com" matches a.example.com, not example.com.
C10_HostMatch ==
    IsSome(route_result) =>
        /\ HostsOnlyRouter =>
                LET hosts == Unwrap(http[1].hosts)
                IN  /\ Routed <=> \E i \in 1..Len(hosts) : HostEntryAccepts(hosts[i], req.host)
                    /\ (hosts = <<"*.example.com">> /\ req.host = "a.example.com") => Routed
                    /\ (hosts = <<"*.example.com">> /\ req.host = "example.com") => ~Routed
        /\ PathOnlyRouter => (Routed <=> match_path(req.path, Unwrap(http[1].path)))

\* The wildcard entry met a subdomain and the route was returned.
C10_Witness ==
    /\ HostsOnlyRouter
    /\ Unwrap(http[1].hosts) = <<"*.example.com">>
    /\ req.host = "a.example.com"
    /\ Routed

(***************************************************************************)
(* Gateway runtime claims                                                  *)
(***************************************************************************)
Range(seq) == {seq[i] : i \in DOMAIN seq}

\* C1: the route, the upstream and the middleware configs a request uses
\* all come from the one runtime it loaded, whatever reloads interleave.
C1_SnapshotConsistency ==
    \A q \in Requests :
        LET t == rq[q]
        IN  /\ t.route_from \in {0, t.snap}
            /\ t.upstream_from \in {0, t.snap}
            /\ t.mw_from \in {0, t.snap}
            /\ IsSome(t.route) => Unwrap(t.route) \in Range(runtimes[t.snap].router)
            /\ IsSome(t.upstream) =>
                    Unwrap(t.upstream) \in
                        Range(runtimes[t.snap].service_registry[Unwrap(t.route).service].upstreams)
            /\ t.pc = "running" =>
                    t.middlewares =
                        [k \in 1..Len(Unwrap(t.route).middlewares) |->
                            runtimes[t.snap].applied_config.http.middlewares[
                                Unwrap(t.route).middlewares[k]]]

\* A request built its chain on the startup snapshot after a reload had
\* replaced the routes and the middleware map.
C1_Witness ==
    \E q \in Requests :
        /\ rq[q].pc = "running"
        /\ rq[q].snap = 1
        /\ gateway_state = 2
        /\ runtimes[2].applied_config = WithHttp(HttpNewRoutes)

StaticFieldsEqual(a, b) ==
    /\ a.version = b.version
    /\ a.admin_api = b.admin_api
    /\ a.log = b.log
    /\ a.access_log = b.access_log
    /\ a.tls = b.tls
    /\ a.listeners = b.listeners

StaticChangedError == Err("Static fields of config has changed, config not applied")

\* C2: a reload passes its check only with a file that validates and whose
\* version, admin_api, log, access_log, tls and listeners equal the applied
\* config's; every reload that returns an error leaves the shared reference
\* and every runtime (router, cursors, applied config) as they were.
C2_RejectedReloadKeepsRuntime ==
    [][\A r \in Reloaders :
        /\ (rl[r].pc = "idle" /\ rl'[r].pc = "checked") =>
                /\ StaticFieldsEqual(runtimes[gateway_state].applied_config, Unwrap(rl'[r].cfg))
                /\ Unwrap(rl'[r].cfg).version = 1
        /\ (rl[r].pc = "idle" /\ rl'[r].pc = "idle" /\ rl'[r] # rl[r]) =>
                /\ IsSome(rl'[r].result)
                /\ ~Unwrap(rl'[r].result).ok
                /\ UNCHANGED <<gateway_state, runtimes, listen_vars>>
        /\ (rl'[r] # rl[r] /\ IsSome(rl'[r].result) /\ Unwrap(rl'[r].result).ok) =>
                rl[r].pc = "checked"
      ]_vars

\* A reload was rejected for a changed static field while the cell held a
\* reloaded runtime whose cursor had moved.
C2_Witness ==
    \E r \in Reloaders :
        /\ rl[r].result = Some(StaticChangedError)
        /\ gateway_state = 2
        /\ runtimes[2].applied_config = WithHttp(HttpNewServices)
        /\ runtimes[2].service_registry["u"].next_index = 1

\* C3: a store publishes the runtime built from the reloaded config; a
\* request that loads afterwards gets that runtime, and every request
\* resolves its upstream from the upstream set of the runtime it loaded,
\* which it keeps until it ends.
C3_ReloadVisibleToLaterRequests ==
    [][/\ \A r \in Reloaders :
            (rl[r].pc = "checked" /\ rl'[r].pc = "idle") =>
                /\ gateway_state' = Len(runtimes')
                /\ runtimes'[gateway_state'].applied_config = Unwrap(rl[r].cfg)
       /\ \A q \in Requests :
            /\ (rq[q].pc = "idle" /\ rq'[q].pc = "loaded") => rq'[q].snap = gateway_state
            /\ (rq[q].pc # "idle" /\ rq'[q].pc # "idle") => rq'[q].snap = rq[q].snap
            /\ (rq[q].pc = "selecting" /\ rq'[q].pc = "resolved") =>
                    Unwrap(rq'[q].upstream) \in
                        Range(runtimes[rq[q].snap].applied_config.http.services[
                                Unwrap(rq[q].route).service].upstreams)
      ]_vars

\* After a reload that changed only http.services, an in-flight request
\* resolved against the old upstream set and a later one against the new.
C3_Witness ==
    /\ gateway_state = 2
    /\ runtimes[2].applied_config = WithHttp(HttpNewServices)
    /\ rq["q1"].snap = 1
    /\ rq["q1"].upstream = Some(MkUpstream("http://old:5000", 1))
    /\ rq["q2"].snap = 2
    /\ rq["q2"].pc = "resolved"
    /\ Unwrap(rq["q2"].upstream).target \in {"http://new1:5000", "http://new2:5000"}

(***************************************************************************)
(* Router claims, continued                                                *)
(***************************************************************************)
ListenerDeclared(route) == req.listener \in Range(route.listeners)
HostPredicate(route) ==
    IsSome(route.hosts) => match_host(req.host, Unwrap(route.hosts))
PathPredicate(route) ==
    IsSome(route.path) => match_path(req.path, Unwrap(route.path))
Satisfies(route) == ListenerDeclared(route) /\ HostPredicate(route) /\ PathPredicate(route)

\* C11: get_route returns a declared route only if the request's listener
\* is among the route's listeners and its host and path predicates hold; it
\* returns NotFound exactly when no declared route satisfies all three, and
\* no other error.
C11_RouteSoundAndComplete ==
    IsSome(route_result) =>
        LET res == Unwrap(route_result)
        IN  /\ res.ok => res.value \in DOMAIN http /\ Satisfies(http[res.value])
            /\ ~res.ok => res.err = "NotFound"
            /\ ~res.ok <=> ~(\E i \in DOMAIN http : Satisfies(http[i]))

\* NotFound for a request whose host and path a route accepts, on a
\* listener the route does not declare.
C11_Witness ==
    /\ IsSome(route_result)
    /\ Unwrap(route_result) = Err("NotFound")
    /\ Len(http) = 2
    /\ \E i \in DOMAIN http :
            HostPredicate(http[i]) /\ PathPredicate(http[i]) /\ ~ListenerDeclared(http[i])

(***************************************************************************)
(* middleware: Next::run, the built-in middlewares, create_chain           *)
(*                                                                         *)
(* A request is [method, uri, headers, client_ip]; uri is [scheme,         *)
(* authority, path_and_query], each an Option, path_and_query holding      *)
(* [path, query]. Header maps are functions from lower-case names.         *)
(* What the outside world does during one run is the record env: the uuid  *)
(* drawn, what each rate limiter answers, whether the client's body        *)
(* arrives, and what the upstream does.                                    *)
(* The outcome of a run is the response (or a panic) together with what    *)
(* the run did: `trace` lists the handlers invoked, in invocation order,   *)
(* `records` the access records emitted, `outbound` the request handed to  *)
(* the http client, `handled` the request the terminal handler received.   *)
(***************************************************************************)
EmptyMap == [n \in {} |-> ""]
HeaderGet(headers, name) == MapGet(headers, name)
HeaderInsert(headers, name, value) == (name :> value) @@ headers

Uri(scheme, authority, path_and_query) ==
    [scheme |-> scheme, authority |-> authority, path_and_query |-> path_and_query]

\* Uri::path: "" when the URI has no path.
UriPath(uri) ==
    IF IsSome(uri.path_and_query) THEN Unwrap(uri.path_and_query).path ELSE ""

\* Uri::query
UriQuery(uri) ==
    IF IsSome(uri.path_and_query) THEN Unwrap(uri.path_and_query).query ELSE None

\* PathAndQuery::as_str
PathAndQueryStr(pq) == pq.path \o (IF IsSome(pq.query) THEN "?" \o Unwrap(pq.query) ELSE "")

Responded(status, headers, body) ==
    [panicked |-> FALSE, status |-> status, headers |-> headers, body |-> body,
     trace |-> <<>>, records |-> <<>>, outbound |-> None, handled |-> None]

Panicked == [Responded(0, EmptyMap, "") EXCEPT !.panicked = TRUE]

Invoked(pos, kind, outcome) ==
    [outcome EXCEPT !.trace = <<[pos |-> pos, kind |-> kind]>> \o @]

\* The request the terminal handler was called with.
Handled(request, outcome) == [outcome EXCEPT !.handled = Some(request)]

\* utils.rs response_with_status
response_with_status(status) == Responded(status, "server" :> "portiq", "")

\* utils.rs bad_gateway_response
bad_gateway_response ==
    Responded(502, ("server" :> "portiq") @@ ("content-type" :> "text/html; charset=utf-8"),
              "502 Bad Gateway")

\* utils.rs set_proxy_headers: the headers put on the request builder.
XffClientOnly(client_ip, original_headers) == client_ip

XffValue(client_ip, original_headers) ==
    IF "x-forwarded-for" \in DOMAIN original_headers
    THEN original_headers["x-forwarded-for"] \o "," \o client_ip
    ELSE client_ip

set_proxy_headers(client_ip, host, proto, builder, original_headers) ==
    LET with_xff == HeaderInsert(builder, "x-forwarded-for", XffValue(client_ip, original_headers))
        with_host ==
            IF "x-forwarded-host" \notin DOMAIN original_headers
            THEN HeaderInsert(with_xff, "x-forwarded-host", host) ELSE with_xff
    IN  IF "x-forwarded-proto" \notin DOMAIN original_headers
        THEN HeaderInsert(with_host, "x-forwarded-proto", proto) ELSE with_host

HasBody(method) == method \in {"POST", "PUT", "PATCH"}

\* The response built from an upstream answer, http.rs lines 176-189.
UpstreamResponseHeaders(upstream_headers) ==
    [n \in DOMAIN upstream_headers |->
        IF n # "server" THEN upstream_headers[n] ELSE "portiq"]

\* What becomes of an upstream answer whose body cannot be read.
BodyErrorIsBadGateway(outbound) == [bad_gateway_response EXCEPT !.outbound = Some(outbound)]

BodyErrorOutcome(outbound) == [Panicked EXCEPT !.outbound = Some(outbound)]

\* server/http.rs send_upstream, lines 142-199: the terminal handler.
send_upstream(upstream_url, client_ip, request, env) ==
    IF ~IsSome(request.uri.path_and_query) THEN Panicked
    ELSE IF "host" \notin DOMAIN request.headers /\ ~IsSome(request.uri.authority)
    THEN Panicked
    ELSE
    LET url == upstream_url \o PathAndQueryStr(Unwrap(request.uri.path_and_query))
        host == IF "host" \in DOMAIN request.headers THEN request.headers["host"]
                ELSE Unwrap(request.uri.authority)
        proto == IF request.uri.scheme = Some("https") THEN "https" ELSE "http"
        builder_headers ==
            set_proxy_headers(client_ip, host, proto, EmptyMap, request.headers)
        outbound == [method |-> request.method, url |-> url, headers |-> builder_headers,
                     body |-> HasBody(request.method)]
    IN  IF HasBody(request.method) /\ ~env.body_ok THEN Panicked
        ELSE IF env.upstream.kind = "send_error"
        THEN [bad_gateway_response EXCEPT !.outbound = Some(outbound)]
        ELSE IF env.upstream.kind = "body_error"
        THEN BodyErrorOutcome(outbound)
        ELSE [Responded(env.upstream.status,
                        UpstreamResponseHeaders(env.upstream.headers), "upstream body")
                EXCEPT !.outbound = Some(outbound)]

\* The middlewares a chain is made of.
RequestIDMiddleware == [kind |-> "request_id", prefix |-> "", limit |-> 0, period |-> 0]
AccessLogMiddleware == [kind |-> "access_log", prefix |-> "", limit |-> 0, period |-> 0]

\* A factory's create: the middleware built from a route middleware config.
FactoryCreate(config) == config

\* access_logger.rs lines 59-81: the record emitted once the rest returned.
AccessRecord(request, request_id, result) ==
    [status |-> result.status, method |-> request.method, path |-> UriPath(request.uri),
     client_ip |-> request.client_ip, request_id |-> request_id,
     level |-> IF result.status >= 200 /\ result.status < 300 THEN "INFO" ELSE "ERROR"]

\* rate_limiter/token_bucket.rs call, lines 145-157: the over-limit response.
TooManyRequests(retry_after) ==
    Responded(429, ("server" :> "portiq") @@ ("retry-after" :> retry_after), "")

\* middleware/mod.rs Next::run, lines 62-72, with each middleware's call
\* inlined: `i` is the position of the first middleware that remains.
RECURSIVE NextRun(_, _, _, _, _)
NextRunDropsCurrent(chain, i, handler, request, env) ==
    IF i > Len(chain)
    THEN Invoked(i, "send_upstream",
                 Handled(request,
                    send_upstream(handler.upstream_url, handler.client_ip, request, env)))
    ELSE NextRun(chain, i + 1, handler, request, env)

NextRun(chain, i, handler, request, env) ==
    IF i > Len(chain)
    THEN Invoked(i, "send_upstream",
                 Handled(request,
                    send_upstream(handler.upstream_url, handler.client_ip, request, env)))
    ELSE LET current == chain[i]
             rest(r) == NextRun(chain, i + 1, handler, r, env)
         IN  Invoked(i, current.kind,
                CASE current.kind = "request_id" ->
                        rest([request EXCEPT !.headers =
                                HeaderInsert(@, "x-request-id", env.uuid)])
                  [] current.kind = "access_log" ->
                        LET request_id ==
                                IF "x-request-id" \in DOMAIN request.headers
                                THEN request.headers["x-request-id"] ELSE "-"
                            result == rest(request)
                        IN  IF result.panicked THEN result
                            ELSE [result EXCEPT !.records =
                                    Append(@, AccessRecord(request, request_id, result))]
                  [] current.kind = "add_prefix" ->
                        rest([request EXCEPT !.uri.path_and_query =
                                Some([path |-> current.prefix \o UriPath(request.uri),
                                      query |-> UriQuery(request.uri)])])
                  [] current.kind = "rate_limit" ->
                        IF env.allow[i] THEN rest(request)
                        ELSE TooManyRequests(env.retry_after))

\* middleware/registry.rs create_chain, lines 27-58.
create_chain_route_first(middlewares) ==
    [k \in 1..Len(middlewares) |-> FactoryCreate(middlewares[k])]
        \o <<RequestIDMiddleware, AccessLogMiddleware>>

create_chain(middlewares) ==
    <<RequestIDMiddleware, AccessLogMiddleware>>
        \o [k \in 1..Len(middlewares) |-> FactoryCreate(middlewares[k])]

\* TokenBucketRateLimiter::new, lines 72-73: the two assertions, on the
\* limit and on the period (the Duration the config's period parsed to).
LimiterAssertionsHold(config) == config.limit > 0 /\ config.period > 0

\* rate_limiter/mod.rs RateLimiterFactory::create, lines 30-41, called for
\* every rate_limit config of the route while the chain is built: a failed
\* assertion of new() panics the request task.
CreateChainPanics(middlewares) ==
    \E k \in DOMAIN middlewares :
        middlewares[k].kind = "rate_limit" /\ ~LimiterAssertionsHold(middlewares[k])

(***************************************************************************)
(* server/http.rs handle_client, lines 108-119: running the chain          *)
(***************************************************************************)
MaxChainLen == 4

ClientIp == "10.0.0.1"

\* What a client sends besides host and path.
InboundPool ==
    [method : {"GET", "POST"},
     query : {None, Some("a=1")},
     headers : {EmptyMap,
                "x-forwarded-for" :> "1.2.3.4",
                "x-request-id" :> "from-client",
                ("x-forwarded-host" :> "public.example.com")
                    @@ ("x-forwarded-proto" :> "https")}]

UpstreamAnswers ==
    {[kind |-> "ok", status |-> 200,
      headers |-> ("server" :> "nginx") @@ ("content-type" :> "text/plain")],
     [kind |-> "ok", status |-> 404, headers |-> EmptyMap],
     [kind |-> "ok", status |-> 302, headers |-> ("location" :> "/moved")],
     [kind |-> "send_error", status |-> 0, headers |-> EmptyMap],
     [kind |-> "body_error", status |-> 200, headers |-> EmptyMap]}

\* request_id.rs line 19: Uuid::new_v4(), never a value a client sent.
GeneratedUuid == "uuid-1"

EnvPool ==
    [uuid : {GeneratedUuid},
     allow : {[i \in 1..MaxChainLen |-> b] : b \in BOOLEAN},
     retry_after : {30},
     body_ok : BOOLEAN,
     upstream : UpstreamAnswers]

\* The request as hyper hands it to handle_client (HTTP/1.1, origin form).
InboundRequest(host, path, inbound) ==
    [method |-> inbound.method,
     uri |-> Uri(None, None, Some([path |-> path, query |-> inbound.query])),
     headers |-> HeaderInsert(inbound.headers, "host", host),
     client_ip |-> ClientIp]

\* lines 108-119: build the chain and the handler, run Next over them.
RequestRunChain(q, inbound, env) ==
    /\ rq[q].pc = "running"
    /\ LET middlewares == create_chain(rq[q].middlewares)
           handler == [upstream_url |-> Unwrap(rq[q].upstream).target, client_ip |-> ClientIp]
           request == InboundRequest(rq[q].host, rq[q].path, inbound)
           result == IF CreateChainPanics(rq[q].middlewares) THEN Panicked
                     ELSE NextRun(middlewares, 1, handler, request, env)
       IN  rq' = [rq EXCEPT ![q] = [@ EXCEPT
                    !.pc = IF result.panicked THEN "panicked" ELSE "done",
                    !.status = result.status,
                    !.request = Some(request),
                    !.outcome = Some(result)]]
    /\ UNCHANGED <<gateway_state, runtimes, rl, lb_vars, router_vars, chain_vars, rate_vars, listen_vars>>

\* The response has gone out, or the task died.
RequestEnd(q) ==
    /\ rq[q].pc \in {"done", "panicked"}
    /\ rq' = [rq EXCEPT ![q] = RequestIdle]
    /\ UNCHANGED <<gateway_state, runtimes, rl, lb_vars, router_vars, chain_vars, rate_vars, listen_vars>>

\* Startup configs with a service that has upstreams, one that has none and
\* one whose upstreams all weigh zero.
ServeHttp(middlewares) ==
    [middlewares |-> ("prefix" :> AddPrefixApi) @@ ("rl" :> RateLimitTwo),
     services |-> ("u" :> [upstreams |-> <<MkUpstream("http://old:5000", 1),
                                          MkUpstream("http://two:5000", 1)>>])
                  @@ ("empty" :> [upstreams |-> <<>>])
                  @@ ("zero" :> [upstreams |-> <<MkUpstream("http://z:5000", 0)>>]),
     routes |-> <<ApiRoute(middlewares),
                  MkRouteConfig(None, Some("/empty"), <<"http-main">>, "empty", None),
                  MkRouteConfig(None, Some("/zero"), <<"http-main">>, "zero",
                                Some(<<"prefix">>))>>]

RouteMiddlewarePool ==
    {None, Some(<<"prefix">>), Some(<<"rl">>), Some(<<"prefix", "rl">>), Some(<<"rl", "prefix">>)}

ServeConfigs ==
    {c \in {WithHttp(ServeHttp(m)) : m \in RouteMiddlewarePool} : validate(c).ok}

ServeRequests ==
    {[host |-> "api.example.com", path |-> "/v1/x", listener |-> "http-main"],
     [host |-> "api.example.com", path |-> "/empty", listener |-> "http-main"],
     [host |-> "api.example.com", path |-> "/zero", listener |-> "http-main"],
     [host |-> "api.example.com", path |-> "/nothing", listener |-> "http-main"]}

InitServe ==
    /\ ListenIdle
    /\ LBIdle
    /\ RouterIdle
    /\ ChainIdle
    /\ RateIdle
    /\ \E c \in ServeConfigs : runtimes = <<GatewayRuntimeNew(c)>>
    /\ gateway_state = 1
    /\ rl = [r \in Reloaders |-> ReloadIdle(None)]
    /\ rq = [q \in Requests |-> RequestIdle]

\* One connection's requests, served one after the other, no reload.
NextServe ==
    \/ \E c \in ServeRequests : RequestLoad("q1", c.host, c.path, c.listener)
    \/ RequestRoute("q1")
    \/ RequestSelectLoad("q1")
    \/ RequestSelectAdvance("q1")
    \/ RequestBuildChain("q1")
    \/ \E inbound \in InboundPool, env \in EnvPool : RequestRunChain("q1", inbound, env)
    \/ RequestEnd("q1")

SpecServe == InitServe /\ [][NextServe]_vars

(***************************************************************************)
(* Request handling claims                                                 *)
(***************************************************************************)
SnapshotOf(q) == runtimes[rq[q].snap]
NoRouteMatches(q) ==
    ~\E i \in DOMAIN SnapshotOf(q).router :
        LET route == SnapshotOf(q).router[i]
        IN  /\ rq[q].listener \in Range(route.listeners)
            /\ IsSome(route.hosts) => match_host(rq[q].host, Unwrap(route.hosts))
            /\ IsSome(route.path) => match_path(rq[q].path, Unwrap(route.path))

\* The service is not declared, or none of its upstreams has weight.
Unselectable(q, service) ==
    LET services == SnapshotOf(q).applied_config.http.services
    IN  \/ service \notin DOMAIN services
        \/ \A i \in DOMAIN services[service].upstreams :
                services[service].upstreams[i].weight = 0

ChainNeverRan(q) == rq[q].outcome = None /\ rq[q].upstream = None

\* C12: a request no route matches is answered 404, one whose route's
\* service is absent or has no selectable upstream is answered 503, and in
\* both cases no middleware ran and nothing was sent upstream.
C12_NotFoundAndUnavailable ==
    \A q \in Requests :
        /\ (rq[q].pc \in {"routed", "selecting", "resolved", "running", "panicked"}
                => ~NoRouteMatches(q))
        /\ (rq[q].pc \in {"selecting", "resolved", "running", "panicked"}
                => ~Unselectable(q, Unwrap(rq[q].route).service))
        /\ rq[q].pc = "done" =>
            /\ NoRouteMatches(q) => rq[q].status = 404 /\ ChainNeverRan(q)
            /\ (IsSome(rq[q].route) /\ Unselectable(q, Unwrap(rq[q].route).service))
                    => rq[q].status = 503 /\ ChainNeverRan(q)

\* 503 was answered for the service whose only upstream weighs zero, and
\* the chain never ran.
C12_Witness ==
    /\ rq["q1"].pc = "done"
    /\ rq["q1"].status = 503
    /\ rq["q1"].path = "/zero"
    /\ ChainNeverRan("q1")

IsPrefix(a, b) == Len(a) <= Len(b) /\ a = SubSeq(b, 1, Len(a))
TraceKinds(outcome) == [k \in 1..Len(outcome.trace) |-> outcome.trace[k].kind]

\* The order the route declares, between the two global middlewares and
\* the terminal handler.
ExpectedOrder(q) ==
    LET names == Unwrap(rq[q].route).middlewares
        configs == SnapshotOf(q).applied_config.http.middlewares
    IN  <<"request_id", "access_log">>
            \o [k \in 1..Len(names) |-> configs[names[k]].kind]
            \o <<"send_upstream">>

\* C13: the chain of a routed request runs request_id, then access_log,
\* then the route's middlewares in declared order, then send_upstream
\* (stopping early only where rate_limit answers 429), and the record
\* access_log emits carries the x-request-id request_id wrote.
C13_ChainOrder ==
    \A q \in Requests :
        IsSome(rq[q].outcome) =>
            LET outcome == Unwrap(rq[q].outcome)
                kinds == TraceKinds(outcome)
            IN  /\ IsPrefix(kinds, ExpectedOrder(q))
                /\ Len(kinds) >= 2
                /\ \A k \in DOMAIN outcome.trace : outcome.trace[k].pos = k
                /\ \/ kinds = ExpectedOrder(q)
                   \/ kinds[Len(kinds)] = "rate_limit" /\ outcome.status = 429
                /\ \A k \in DOMAIN outcome.records :
                        outcome.records[k].request_id = GeneratedUuid

\* A route declaring add_prefix then rate_limit ran all five handlers, for
\* a request that arrived with an x-request-id of the client's own.
C13_Witness ==
    /\ IsSome(rq["q1"].outcome)
    /\ TraceKinds(Unwrap(rq["q1"].outcome)) =
            <<"request_id", "access_log", "add_prefix", "rate_limit", "send_upstream">>
    /\ HeaderGet(Unwrap(rq["q1"].request).headers, "x-request-id") = Some("from-client")
    /\ Len(Unwrap(rq["q1"].outcome).records) = 1

(***************************************************************************)
(* Next::run over any short chain                                          *)
(***************************************************************************)
MaxNextLen == 3

MiddlewarePool == {RequestIDMiddleware, AccessLogMiddleware, AddPrefixApi, RateLimitTwo}

ChainPool == UNION {[1..n -> MiddlewarePool] : n \in 0..MaxNextLen}

\* Each rate limiter in the chain admits or denies on its own.
ChainEnvPool ==
    [uuid : {GeneratedUuid},
     allow : [1..MaxChainLen -> BOOLEAN],
     retry_after : {30},
     body_ok : {TRUE},
     upstream : UpstreamAnswers]

ChainRequests ==
    {InboundRequest("api.example.com", "/v1/x",
                    [method |-> "GET", query |-> None, headers |-> EmptyMap])}

InitChain ==
    /\ ListenIdle
    /\ LBIdle
    /\ RouterIdle
    /\ GatewayIdle
    /\ RateIdle
    /\ chain_in \in [chain : ChainPool, request : ChainRequests, env : ChainEnvPool]
    /\ chain_out = None

\* Next::new(handler, &middlewares).run(request)
RunNext ==
    /\ chain_out = None
    /\ chain_out' = Some(NextRun(chain_in.chain, 1,
                                 [upstream_url |-> "http://old:5000", client_ip |-> ClientIp],
                                 chain_in.request, chain_in.env))
    /\ UNCHANGED <<chain_in, lb_vars, router_vars, gw_vars, rate_vars, listen_vars>>

NextChain == RunNext

SpecChain == InitChain /\ [][NextChain]_vars

\* Whether the middleware at position i hands the request on.
CallsNext(i) ==
    ~(chain_in.chain[i].kind = "rate_limit" /\ ~chain_in.env.allow[i])

Stoppers == {i \in DOMAIN chain_in.chain : ~CallsNext(i)}

FirstStopper == CHOOSE i \in Stoppers : \A j \in Stoppers : i <= j

\* C14: Next::run invokes the middlewares one by one in chain order, none
\* twice; when all of them call Next.run the terminal handler runs once,
\* after them (directly when the chain is empty); when one returns without
\* calling Next.run, nothing after it is invoked, the handler included.
C14_NextRunOrder ==
    IsSome(chain_out) =>
        LET trace == Unwrap(chain_out).trace
            n == Len(chain_in.chain)
        IN  /\ \A k \in DOMAIN trace : trace[k].pos = k
            /\ \A k \in DOMAIN trace :
                    IF k <= n THEN trace[k].kind = chain_in.chain[k].kind
                    ELSE trace[k].kind = "send_upstream"
            /\ Stoppers = {} => Len(trace) = n + 1
            /\ Stoppers # {} => Len(trace) = FirstStopper
            /\ n = 0 => trace = <<[pos |-> 1, kind |-> "send_upstream"]>>

\* A chain of three whose second middleware, a rate limiter, answered
\* itself: the third and the handler were not invoked.
C14_Witness ==
    /\ IsSome(chain_out)
    /\ Len(chain_in.chain) = 3
    /\ Stoppers # {}
    /\ FirstStopper = 2
    /\ Len(Unwrap(chain_out).trace) = 2
    /\ Unwrap(chain_out).outbound = None

(***************************************************************************)
(* middleware/rate_limiter: TokenBucket and TokenBucketRateLimiter         *)
(*                                                                         *)
(* The clock advances in ticks of TickSecs seconds. A bucket's tokens are  *)
(* kept exactly, as a count of 1/period-ths of a token (period in          *)
(* seconds), so refill_rate = limit / period adds limit units per second   *)
(* and one token is `period` units.                                        *)
(***************************************************************************)
TickSecs == 30
MaxTime == 4
MaxKeyCalls == 5

RateTasks == {"t1", "t2"}
RateKeys == {"10.0.0.1"}

RateLimitOne == [kind |-> "rate_limit", prefix |-> "", limit |-> 1, period |-> 5]
RateLimitThree == [kind |-> "rate_limit", prefix |-> "", limit |-> 3, period |-> 30]
Limiters == {RateLimitTwo, RateLimitOne, RateLimitThree}

Min(a, b) == IF a < b THEN a ELSE b
CeilDiv(a, b) == IF a <= 0 THEN 0 ELSE (a + b - 1) \div b

\* TokenBucket::new, lines 22-29, with the rate as line 89 computes it.
TokenBucketNewEmpty(capacity, limit, period, t) ==
    [capacity |-> capacity, limit |-> limit, period |-> period,
     available_tokens |-> 0, last_refill |-> t]

TokenBucketNew(capacity, limit, period, t) ==
    [capacity |-> capacity, limit |-> limit, period |-> period,
     available_tokens |-> capacity * period, last_refill |-> t]

\* TokenBucket::refill, lines 42-55.
refill_uncapped(bucket, t) ==
    LET elapsed == (t - bucket.last_refill) * TickSecs
        tokens_to_add == bucket.limit * elapsed
    IN  IF tokens_to_add > 0
        THEN [bucket EXCEPT !.available_tokens = bucket.available_tokens + tokens_to_add,
                            !.last_refill = t]
        ELSE bucket

refill(bucket, t) ==
    LET elapsed == (t - bucket.last_refill) * TickSecs
        tokens_to_add == bucket.limit * elapsed
    IN  IF tokens_to_add > 0
        THEN [bucket EXCEPT !.available_tokens =
                                Min(bucket.capacity * bucket.period,
                                    bucket.available_tokens + tokens_to_add),
                            !.last_refill = t]
        ELSE bucket

\* TokenBucket::allow, lines 31-40.
bucket_allow_charges_denied(bucket, t) ==
    LET refilled == refill(bucket, t)
    IN  [bucket |-> [refilled EXCEPT !.available_tokens = @ - refilled.period],
         allowed |-> refilled.available_tokens >= refilled.period]

bucket_allow_keeps_token(bucket, t) ==
    LET refilled == refill(bucket, t)
    IN  [bucket |-> refilled, allowed |-> refilled.available_tokens >= refilled.period]

bucket_allow(bucket, t) ==
    LET refilled == refill(bucket, t)
    IN  IF refilled.available_tokens >= refilled.period
        THEN [bucket |-> [refilled EXCEPT !.available_tokens = @ - refilled.period],
              allowed |-> TRUE]
        ELSE [bucket |-> refilled, allowed |-> FALSE]

\* TokenBucketRateLimiter::allow, lines 85-94: the bucket there is, or a
\* new one of this limiter's making.
EntryOrInsert(st, limiter, key, t) ==
    IF key \in DOMAIN st THEN st[key]
    ELSE TokenBucketNew(limiter.limit, limiter.limit, limiter.period, t)

limiter_allow(st, limiter, key, t) ==
    LET outcome == bucket_allow(EntryOrInsert(st, limiter, key, t), t)
    IN  [store |-> (key :> outcome.bucket) @@ st, allowed |-> outcome.allowed]

\* TokenBucketRateLimiter::retry_after, lines 96-109, in whole seconds.
retry_after(st, key) ==
    IF key \in DOMAIN st
    THEN LET bucket == st[key]
         IN  IF bucket.available_tokens >= bucket.period THEN Some(0)
             ELSE Some(CeilDiv(bucket.period - bucket.available_tokens, bucket.limit))
    ELSE None

\* A task serves the requests of one route, through the rate limiter that
\* route declares.
RateTaskIdle ==
    [pc |-> "idle", limiter |-> RateLimitTwo, key |-> "", allowed |-> FALSE,
     status |-> 0, retry_after |-> 0, denied_at |-> 0, denied_with |-> 0]

\* History of a key: which limiter made its bucket and when, how many
\* allow() calls the key has had since and how many of the first `limit`
\* were admitted, when call limit + 1 ran (-1: not yet) and what it was
\* answered, and whether a call after that one was admitted; and, of the
\* calls made at the instant of the latest one, how many there were and how
\* many were admitted.
HistoryNew(limiter, t) ==
    [creator |-> limiter, created_at |-> t, calls |-> 0, admitted_first |-> 0,
     overflow_at |-> -1, overflow_allowed |-> FALSE, later_admitted |-> FALSE,
     burst_at |-> t, burst_calls |-> 0, burst_admitted |-> 0]

HistoryAfter(h, t, allowed) ==
    [h EXCEPT !.calls = @ + 1,
              !.admitted_first =
                    IF h.calls < h.creator.limit /\ allowed THEN @ + 1 ELSE @,
              !.overflow_at = IF h.calls = h.creator.limit THEN t ELSE @,
              !.overflow_allowed = IF h.calls = h.creator.limit THEN allowed ELSE @,
              !.later_admitted = @ \/ (h.calls > h.creator.limit /\ allowed),
              !.burst_at = t,
              !.burst_calls = IF h.burst_at = t THEN @ + 1 ELSE 1,
              !.burst_admitted =
                    (IF h.burst_at = t THEN @ ELSE 0) + (IF allowed THEN 1 ELSE 0)]

CallsOf(key) == IF key \in DOMAIN hist THEN hist[key].calls ELSE 0

\* call, lines 119-144: derive the key, take the lock, allow(); an admitted
\* request goes on down the chain.
RateAllow(t, key) ==
    /\ rt[t].pc = "idle"
    /\ CallsOf(key) < MaxKeyCalls
    /\ LET limiter == rt[t].limiter
           outcome == limiter_allow(store, limiter, key, now)
       IN  /\ store' = outcome.store
           /\ rt' = [rt EXCEPT ![t] = [RateTaskIdle EXCEPT
                        !.limiter = limiter,
                        !.pc = IF outcome.allowed THEN "admitted" ELSE "denied",
                        !.key = key, !.allowed = outcome.allowed,
                        !.denied_at = now,
                        !.denied_with = outcome.store[key].available_tokens]]
           /\ hist' = (key :> HistoryAfter(IF key \in DOMAIN hist THEN hist[key]
                                            ELSE HistoryNew(limiter, now),
                                            now, outcome.allowed))
                      @@ hist
    /\ UNCHANGED <<now, lb_vars, router_vars, gw_vars, chain_vars, listen_vars>>

\* call, lines 146-157: take the lock again for retry_after(), answer 429.
RateDeny(t) ==
    /\ rt[t].pc = "denied"
    /\ LET retry_duration == retry_after(store, rt[t].key)
       IN  rt' = [rt EXCEPT ![t] = [@ EXCEPT
                    !.pc = "done", !.status = 429,
                    !.retry_after = IF IsSome(retry_duration) THEN Unwrap(retry_duration)
                                    ELSE 0]]
    /\ UNCHANGED <<store, now, hist, lb_vars, router_vars, gw_vars, chain_vars, listen_vars>>

\* The rest of the chain answered, or the 429 went out.
RateReturn(t) ==
    /\ rt[t].pc \in {"admitted", "done"}
    /\ rt' = [rt EXCEPT ![t] = [RateTaskIdle EXCEPT !.limiter = rt[t].limiter]]
    /\ UNCHANGED <<store, now, hist, lb_vars, router_vars, gw_vars, chain_vars, listen_vars>>

\* Time passes.
Tick ==
    /\ now < MaxTime
    /\ now' = now + 1
    /\ UNCHANGED <<store, rt, hist, lb_vars, router_vars, gw_vars, chain_vars, listen_vars>>

InitRate ==
    /\ ListenIdle
    /\ LBIdle
    /\ RouterIdle
    /\ GatewayIdle
    /\ ChainIdle
    /\ store = EmptyMap
    /\ now = 0
    /\ \E limiter \in [RateTasks -> Limiters] :
            rt = [t \in RateTasks |-> [RateTaskIdle EXCEPT !.limiter = limiter[t]]]
    /\ hist = EmptyMap

NextRate ==
    \/ \E t \in RateTasks, key \in RateKeys : RateAllow(t, key)
    \/ \E t \in RateTasks : RateDeny(t)
    \/ \E t \in RateTasks : RateReturn(t)
    \/ Tick

SpecRate == InitRate /\ [][NextRate]_vars

(***************************************************************************)
(* Rate limiter claims                                                     *)
(***************************************************************************)
ElapsedSecs(from, to) == (to - from) * TickSecs

\* The allow() call a step makes, if it makes one.
AllowStep(t) == rt[t].pc = "idle" /\ rt'[t].pc \in {"admitted", "denied"}

\* C15: for a key whose bucket a limiter with limit L and period T made,
\* the first L requests are admitted, request L+1 is denied if it comes
\* less than T/L after the first, and a request that comes T or more after
\* that denial is admitted unless one was admitted in between.
C15_BurstThenRefill ==
    [][\A t \in RateTasks :
        AllowStep(t) =>
            LET key == rt'[t].key
                after == hist'[key]
                L == after.creator.limit
                T == after.creator.period
            IN  /\ after.admitted_first = Min(after.calls, L)
                /\ (after.calls = L + 1 /\ ElapsedSecs(after.created_at, now) * L < T)
                        => ~rt'[t].allowed
                /\ (/\ key \in DOMAIN hist
                    /\ hist[key].overflow_at >= 0
                    /\ ~hist[key].overflow_allowed
                    /\ ~hist[key].later_admitted
                    /\ ElapsedSecs(hist[key].overflow_at, now) >= T)
                        => rt'[t].allowed
      ]_vars

\* limit=2, period=60s: two admitted, the third denied at once, and a
\* request a period later admitted.
C15_Witness ==
    \E key \in DOMAIN hist :
        /\ hist[key].creator = RateLimitTwo
        /\ hist[key].admitted_first = 2
        /\ hist[key].overflow_at = hist[key].created_at
        /\ ~hist[key].overflow_allowed
        /\ hist[key].later_admitted
        /\ hist[key].calls = 4
        /\ ElapsedSecs(hist[key].overflow_at, now) = 60

\* C16: every bucket in the store has 0 <= available <= capacity, and a
\* key's last_refill never decreases.
C16_BucketBounds ==
    [][/\ \A key \in DOMAIN store' :
            /\ store'[key].available_tokens >= 0
            /\ store'[key].available_tokens <= store'[key].capacity * store'[key].period
       /\ \A key \in DOMAIN store :
            /\ key \in DOMAIN store'
            /\ store'[key].last_refill >= store[key].last_refill
      ]_vars

\* A drained bucket sat idle for longer than it takes to fill, and the
\* refill of the next request stopped at the capacity.
C16_Witness ==
    \E key \in DOMAIN store :
        /\ store[key].capacity = 3
        /\ hist[key].calls = 4
        /\ hist[key].overflow_at = hist[key].created_at + 2
        /\ hist[key].overflow_allowed
        /\ store[key].last_refill = hist[key].overflow_at
        /\ store[key].available_tokens = 2 * store[key].period

\* C17: the bucket a rate-limit middleware consults was made with that
\* middleware's own limit and period: two differently configured rate
\* limiters never meet in one bucket.
C17_OwnBucketPerMiddleware ==
    \A t \in RateTasks :
        rt[t].pc \in {"admitted", "denied"} =>
            /\ store[rt[t].key].capacity = rt[t].limiter.limit
            /\ store[rt[t].key].limit = rt[t].limiter.limit
            /\ store[rt[t].key].period = rt[t].limiter.period

\* ceil(a / b) for b > 0 and any integer a.
Ceiling(a, b) == -((-a) \div b)

\* ceil((1 - available) / refill_rate), in seconds.
SecondsToNextToken(bucket) == Ceiling(bucket.period - bucket.available_tokens, bucket.limit)

\* C18: a denied request is answered 429 with Retry-After
\* ceil((1 - available) / refill_rate) of the key's bucket (as its denial
\* left it, or as it is when the answer is built); after three requests at
\* once under limit=2, period=60s the third gets Retry-After >= 29, and
\* right after the first request under limit=1, period=5s the retry delay
\* is 4 to 5 seconds.
C18_RetryAfterValue ==
    [][\A t \in RateTasks :
        (rt[t].pc = "denied" /\ rt'[t].pc = "done") =>
            LET bucket == store[rt[t].key]
                h == hist[rt[t].key]
            IN  /\ rt'[t].status = 429
                /\ \/ rt'[t].retry_after = SecondsToNextToken(bucket)
                   \/ rt'[t].retry_after =
                        SecondsToNextToken([bucket EXCEPT !.available_tokens = rt[t].denied_with])
                /\ (h.creator = RateLimitTwo /\ h.calls = 3 /\ now = h.created_at)
                        => rt'[t].retry_after >= 29
                /\ (h.creator = RateLimitOne /\ h.calls = 2 /\ now = h.created_at)
                        => rt'[t].retry_after \in 4..5
      ]_vars

(***************************************************************************)
(* send_upstream claims                                                    *)
(***************************************************************************)
HandlerInvoked(outcome) ==
    \E k \in DOMAIN outcome.trace : outcome.trace[k].kind = "send_upstream"

\* C19: send_upstream always yields a response and never panics: the
\* upstream's status when the upstream answered, and the 502 response with
\* Server: portiq on every failure, a failure to read the upstream's body
\* included.
C19_SendUpstreamAlwaysAnswers ==
    (IsSome(chain_out) /\ HandlerInvoked(Unwrap(chain_out))) =>
        LET outcome == Unwrap(chain_out)
            upstream == chain_in.env.upstream
        IN  /\ ~outcome.panicked
            /\ upstream.kind = "ok" => outcome.status = upstream.status
            /\ upstream.kind # "ok" =>
                    /\ outcome.status = 502
                    /\ HeaderGet(outcome.headers, "server") = Some("portiq")

\* C20: the outbound x-forwarded-for is the inbound one followed by a comma
\* and the client IP, or the client IP alone when the inbound request has
\* none; 1.2.3.4 from client 10.0.0.1 goes out as 1.2.3.4,10.0.0.1.
C20_ForwardedFor ==
    \A q \in Requests :
        (IsSome(rq[q].outcome) /\ IsSome(Unwrap(rq[q].outcome).outbound)) =>
            LET inbound == Unwrap(rq[q].request).headers
                sent == HeaderGet(Unwrap(Unwrap(rq[q].outcome).outbound).headers,
                                  "x-forwarded-for")
            IN  /\ "x-forwarded-for" \in DOMAIN inbound =>
                        sent = Some(inbound["x-forwarded-for"] \o "," \o "10.0.0.1")
                /\ "x-forwarded-for" \notin DOMAIN inbound => sent = Some("10.0.0.1")
                /\ HeaderGet(inbound, "x-forwarded-for") = Some("1.2.3.4") =>
                        sent = Some("1.2.3.4,10.0.0.1")

\* A request that came with x-forwarded-for: 1.2.3.4 was sent upstream.
C20_Witness ==
    /\ IsSome(rq["q1"].outcome)
    /\ IsSome(Unwrap(rq["q1"].outcome).outbound)
    /\ HeaderGet(Unwrap(rq["q1"].request).headers, "x-forwarded-for") = Some("1.2.3.4")
    /\ HeaderGet(Unwrap(Unwrap(rq["q1"].outcome).outbound).headers, "x-forwarded-for")
            = Some("1.2.3.4,10.0.0.1")

\* The request the handler received and the request it handed to the http
\* client, for a request whose chain reached the handler and sent.
Forwarded(q) ==
    /\ IsSome(rq[q].outcome)
    /\ IsSome(Unwrap(rq[q].outcome).handled)
    /\ IsSome(Unwrap(rq[q].outcome).outbound)

HandledHeaders(q) == Unwrap(Unwrap(rq[q].outcome).handled).headers
OutboundHeaders(q) == Unwrap(Unwrap(rq[q].outcome).outbound).headers

\* C21: every forwarded request carries x-forwarded-for, x-forwarded-host
\* and x-forwarded-proto; the last two keep the client's value when the
\* inbound request has them and are otherwise the computed host and proto.
C21_ProxyHeadersPresent ==
    \A q \in Requests :
        Forwarded(q) =>
            LET inbound == HandledHeaders(q)
                sent == OutboundHeaders(q)
            IN  /\ IsSome(HeaderGet(sent, "x-forwarded-for"))
                /\ HeaderGet(sent, "x-forwarded-host") =
                        IF "x-forwarded-host" \in DOMAIN inbound
                        THEN Some(inbound["x-forwarded-host"])
                        ELSE Some(inbound["host"])
                /\ HeaderGet(sent, "x-forwarded-proto") =
                        IF "x-forwarded-proto" \in DOMAIN inbound
                        THEN Some(inbound["x-forwarded-proto"])
                        ELSE Some("http")

\* C22: every header of the request that reaches send_upstream, the
\* x-request-id written by request_id included, is on the outbound request.
C22_InboundHeadersForwarded ==
    \A q \in Requests :
        Forwarded(q) =>
            /\ \A name \in DOMAIN HandledHeaders(q) : name \in DOMAIN OutboundHeaders(q)
            /\ HeaderGet(OutboundHeaders(q), "x-request-id") = Some(GeneratedUuid)

\* C23: when the upstream answered, the response has the upstream's status
\* and each of its headers other than Server unchanged, and its Server
\* header is portiq whether or not the upstream sent one.
C23_UpstreamResponseCopied ==
    (/\ IsSome(chain_out)
     /\ HandlerInvoked(Unwrap(chain_out))
     /\ ~Unwrap(chain_out).panicked
     /\ chain_in.env.upstream.kind = "ok") =>
        LET outcome == Unwrap(chain_out)
            upstream == chain_in.env.upstream
        IN  /\ outcome.status = upstream.status
            /\ \A name \in DOMAIN upstream.headers \ {"server"} :
                    HeaderGet(outcome.headers, name) = Some(upstream.headers[name])
            /\ HeaderGet(outcome.headers, "server") = Some("portiq")

\* C24: for every request that entered the chain access_log emitted exactly
\* one record, with the status of the response the rest of the chain
\* returned, at INFO for a 2xx or 3xx status and at ERROR otherwise.
C24_OneAccessRecord ==
    \A q \in Requests :
        IsSome(rq[q].outcome) =>
            LET outcome == Unwrap(rq[q].outcome)
            IN  /\ Len(outcome.records) = 1
                /\ outcome.records[1].status = outcome.status
                /\ outcome.records[1].level =
                        IF outcome.status >= 200 /\ outcome.status < 400
                        THEN "INFO" ELSE "ERROR"

(***************************************************************************)
(* config.rs validate over startup and reload files of every shape         *)
(***************************************************************************)
SecondDefaultTls == [cert_file |-> "cert3.pem", key_file |-> "key3.pem", default |-> TRUE]

\* The tls key of a file: absent, an empty list, or entries of which none,
\* one or two are marked default.
TlsPool ==
    {None, Some(<<>>), Some(<<DefaultTls>>), Some(<<ExtraTls>>),
     Some(<<ExtraTls, DefaultTls>>), Some(<<DefaultTls, SecondDefaultTls>>)}

ListenersPool ==
    {<<MainListener>>, <<MainListener, TlsListener>>, <<TlsListener>>,
     <<MainListener, MainListener>>}

\* A route with neither hosts nor path, and one on a listener that the
\* listener lists above never declare.
HttpNoMatcher ==
    [middlewares |-> ("prefix" :> AddPrefixApi),
     services |-> ("u" :> [upstreams |-> <<MkUpstream("http://old:5000", 1)>>]),
     routes |-> <<MkRouteConfig(None, None, <<"http-main">>, "u", None)>>]

HttpUndefinedListener ==
    [middlewares |-> ("prefix" :> AddPrefixApi),
     services |-> ("u" :> [upstreams |-> <<MkUpstream("http://old:5000", 1)>>]),
     routes |-> <<MkRouteConfig(None, Some("/new"), <<"http-main", "internal-http">>, "u",
                                Some(<<"prefix">>))>>]

HttpPool ==
    {HttpStartup, HttpNewRoutes, HttpUndefinedService, HttpUndefinedMiddleware,
     HttpNoMatcher, HttpUndefinedListener}

ConfigPool ==
    {MkConfig(1, "127.0.0.1:5678", DefaultLog, DefaultAccessLog, tls, listeners, http_config) :
        tls \in TlsPool, listeners \in ListenersPool, http_config \in HttpPool}

\* server/tls.rs init_rustls_server_config, lines 49-52: the entry marked
\* default, None where the expect() panics.
init_rustls_server_config(tls_configs) ==
    IF \E k \in DOMAIN tls_configs : tls_configs[k].default
    THEN Some(tls_configs[CHOOSE k \in DOMAIN tls_configs :
                            /\ tls_configs[k].default
                            /\ \A j \in 1..(k - 1) : ~tls_configs[j].default])
    ELSE None

\* Startup: the runtime is built from whatever file load_config accepted.
InitConfig ==
    /\ ListenIdle
    /\ LBIdle
    /\ RouterIdle
    /\ ChainIdle
    /\ RateIdle
    /\ \E c \in ConfigPool :
        /\ load_config([parses |-> TRUE, cfg |-> c]).ok
        /\ runtimes = <<GatewayRuntimeNew(c)>>
    /\ gateway_state = 1
    /\ rl = [r \in Reloaders |-> ReloadIdle(None)]
    /\ rq = [q \in Requests |-> RequestIdle]

\* Reloads from files of every shape while one request task is served.
NextConfig ==
    \/ \E c \in ConfigPool : ReloadCheck("r1", [parses |-> TRUE, cfg |-> c])
    \/ ReloadStore("r1")
    \/ RequestLoad("q1", "api.example.com", "/v1/x", "http-main")
    \/ RequestRoute("q1")
    \/ RequestSelectLoad("q1")
    \/ RequestSelectAdvance("q1")
    \/ RequestBuildChain("q1")
    \/ RequestFinish("q1")

SpecConfig == InitConfig /\ [][NextConfig]_vars

(***************************************************************************)
(* Configuration claims                                                    *)
(***************************************************************************)
DeclaredListeners(cfg) == {cfg.listeners[k].name : k \in DOMAIN cfg.listeners}

RouteMiddlewareNames(route) ==
    IF IsSome(route.middlewares) THEN Range(Unwrap(route.middlewares)) ELSE {}

\* C25: in every runtime reached by startup or reloads each route has hosts
\* or path, its listeners are declared, its service is a key of
\* http.services and its middleware names are keys of http.middlewares of
\* the same snapshot, so that the lookup by name in handle_client finds
\* every name (no request task panics there).
C25_RuntimeReferencesResolve ==
    /\ \A i \in DOMAIN runtimes :
        LET cfg == runtimes[i].applied_config
        IN  /\ \A k \in DOMAIN cfg.http.routes :
                LET route == cfg.http.routes[k]
                IN  /\ IsSome(route.hosts) \/ IsSome(route.path)
                    /\ Range(route.listeners) \subseteq DeclaredListeners(cfg)
                    /\ route.service \in DOMAIN cfg.http.services
                    /\ RouteMiddlewareNames(route) \subseteq DOMAIN cfg.http.middlewares
            /\ \A k \in DOMAIN runtimes[i].router :
                Range(runtimes[i].router[k].middlewares) \subseteq DOMAIN cfg.http.middlewares
    /\ \A q \in Requests : rq[q].pc # "panicked"

\* A request was routed by a runtime that a reload installed and the lookup
\* found its route's middleware.
C25_Witness ==
    /\ Len(runtimes) >= 2
    /\ rq["q1"].pc = "running"
    /\ rq["q1"].mw_from = 2
    /\ rq["q1"].middlewares = <<RateLimitTwo>>

HasHttpsListener(cfg) == \E k \in DOMAIN cfg.listeners : cfg.listeners[k].protocol = "https"

\* The configs validate has accepted: those of the runtimes and those a
\* reload holds between its check and its store.
AcceptedConfigs ==
    {runtimes[i].applied_config : i \in DOMAIN runtimes}
        \cup {Unwrap(rl[r].cfg) : r \in {x \in Reloaders : IsSome(rl[x].cfg)}}

\* C26: a config validate accepted has, when tls is configured at all,
\* exactly one entry marked default, and has a non-empty tls list when some
\* listener is https; init_rustls_server_config finds its default entry.
C26_TlsDefaultEntry ==
    \A cfg \in AcceptedConfigs :
        /\ IsSome(cfg.tls) =>
            /\ Cardinality({k \in DOMAIN Unwrap(cfg.tls) : Unwrap(cfg.tls)[k].default}) = 1
            /\ IsSome(init_rustls_server_config(Unwrap(cfg.tls)))
        /\ HasHttpsListener(cfg) => IsSome(cfg.tls) /\ Len(Unwrap(cfg.tls)) > 0

\* A reload was accepted for a gateway with an https listener and two TLS
\* entries, the default one second.
C26_Witness ==
    /\ Len(runtimes) >= 2
    /\ HasHttpsListener(runtimes[2].applied_config)
    /\ runtimes[2].applied_config.tls = Some(<<ExtraTls, DefaultTls>>)
    /\ init_rustls_server_config(<<ExtraTls, DefaultTls>>) = Some(DefaultTls)

(***************************************************************************)
(* Load balancer cursor claim                                              *)
(***************************************************************************)
CursorInRange == next_index \in 0..(Len(weighted) - 1)

\* What a caller read at line 44 is an index into upstreams.
LoadedIndexValid ==
    \A s \in Selectors :
        sel_pc[s] = "loaded" => sel_index[s] \in 0..(Len(upstreams) - 1)

\* C29 as stated: in every reachable state, concurrent select() calls
\* included, the cursor lies in [0, len(weighted)), and the index read at
\* weighted[cursor] is a valid index into upstreams.
C29_CursorAlwaysInRange ==
    /\ CursorInRange
    /\ LoadedIndexValid

\* C29 amended: the cursor lies in [0, len(weighted)) whenever weighted is
\* non-empty; when it is empty the cursor stays 0 and no select() reads
\* weighted; every index read is a valid index into upstreams.
C29_CursorInRangeWhenNonEmpty ==
    /\ Len(weighted) > 0 => CursorInRange
    /\ Len(weighted) = 0 =>
            /\ next_index = 0
            /\ \A s \in Selectors : sel_pc[s] = "idle"
    /\ LoadedIndexValid

\* Two callers are both between their read and their update, after the
\* cursor has wrapped around.
C29_Witness ==
    /\ \A s \in Selectors : sel_pc[s] = "loaded"
    /\ Len(results) > TotalWeight
    /\ TotalWeight > 1
    /\ CursorInRange

(***************************************************************************)
(* The rate limiter with two clients                                       *)
(***************************************************************************)
TwoKeys == {"10.0.0.1", "10.0.0.2"}

\* How many ticks the clock is followed for with two clients.
MaxBurstTime == 1

\* Time passes, while the clock is followed.
BurstTick == now < MaxBurstTime /\ Tick

\* Both tasks serve one route, whose limiter is any of the three.
InitRateKeys ==
    /\ ListenIdle
    /\ LBIdle
    /\ RouterIdle
    /\ GatewayIdle
    /\ ChainIdle
    /\ store = EmptyMap
    /\ now = 0
    /\ \E limiter \in Limiters :
            rt = [t \in RateTasks |-> [RateTaskIdle EXCEPT !.limiter = limiter]]
    /\ hist = EmptyMap

NextRateKeys ==
    \/ \E t \in RateTasks, key \in TwoKeys : RateAllow(t, key)
    \/ \E t \in RateTasks : RateDeny(t)
    \/ \E t \in RateTasks : RateReturn(t)
    \/ BurstTick

SpecRateKeys == InitRateKeys /\ [][NextRateKeys]_vars

\* C30: of the requests for one key that run allow() at one instant, in
\* whatever order the tasks take the lock, at most `limit` are admitted,
\* and exactly min(n, limit) of the first n when the key is fresh; an
\* allow() on one key leaves the bucket of every other key as it was.
C30_ConcurrentAdmissions ==
    [][\A t \in RateTasks :
        AllowStep(t) =>
            LET key == rt'[t].key
                after == hist'[key]
                limit == store'[key].capacity
            IN  /\ after.burst_admitted <= limit
                /\ after.burst_at = after.created_at =>
                        after.burst_admitted = Min(after.burst_calls, limit)
                /\ \A other \in DOMAIN store \ {key} :
                        /\ other \in DOMAIN store'
                        /\ store'[other] = store[other]
      ]_vars

\* Both tasks hold an answer for the same fresh key at once, one admitted
\* and one denied with the limit reached, while the other key's bucket,
\* made earlier, is still full less the one token it gave.
C30_Witness ==
    /\ rt["t1"].pc = "admitted" /\ rt["t2"].pc = "denied"
    /\ rt["t1"].key = "10.0.0.2" /\ rt["t2"].key = "10.0.0.2"
    /\ DOMAIN store = TwoKeys
    /\ hist["10.0.0.2"].burst_at = hist["10.0.0.2"].created_at
    /\ hist["10.0.0.2"].burst_calls = 3
    /\ hist["10.0.0.2"].burst_admitted = 2
    /\ hist["10.0.0.1"].calls = 1
    /\ hist["10.0.0.1"].created_at < hist["10.0.0.2"].created_at
    /\ store["10.0.0.1"].available_tokens =
            (store["10.0.0.1"].capacity - 1) * store["10.0.0.1"].period

(***************************************************************************)
(* server/mod.rs run_tcp_listener, server/http.rs connection tasks,        *)
(* utils.rs graceful_shutdown                                              *)
(*                                                                         *)
(* One accept loop per listener, each a task of its own; every accepted    *)
(* connection is a spawned task the loop does not await. A connection      *)
(* task is at "handshake" (https only), "serving", or has ended: "closed", *)
(* "handshake_failed", "serve_error", "panicked", or "killed" with the     *)
(* process.                                                                *)
(***************************************************************************)
MaxConns == 2
MaxAcceptErrors == 1

\* utils.rs line 67: the drain window, in seconds.
DrainSecs == 5

ServedListeners == <<MainListener, TlsListener>>

LoopNames == {ServedListeners[k].name : k \in DOMAIN ServedListeners}

ListenerCfg(l) == ServedListeners[CHOOSE k \in DOMAIN ServedListeners : ServedListeners[k].name = l]

Running(state) == state \in {"handshake", "serving"}

Failed(state) == state \in {"handshake_failed", "serve_error", "panicked"}

ConnsOf(l) == {c \in DOMAIN conns : conns[c].listener = l}

\* What has gone wrong on a listener so far: accepts that failed and
\* connections of its that failed.
FailuresOn(l) ==
    accept_loops[l].errors + Cardinality({c \in ConnsOf(l) : Failed(conns[c].state)})

\* The accepts that have failed so far, over both loops; MaxAcceptErrors
\* bounds their number.
AcceptErrors ==
    accept_loops[ServedListeners[1].name].errors + accept_loops[ServedListeners[2].name].errors

\* lines 109-110 done for every listener of the config: bound, in the loop.
InitListen ==
    /\ LBIdle
    /\ RouterIdle
    /\ GatewayIdle
    /\ ChainIdle
    /\ RateIdle
    /\ cancel_token = FALSE
    /\ accept_loops = [l \in LoopNames |-> [pc |-> "accepting", errors |-> 0]]
    /\ conns = <<>>
    /\ process = [pc |-> "running", slept |-> 0]

\* lines 114-150: accept() yields a connection; spawn its task and loop.
\* select! may take this branch also when the token is already cancelled.
AcceptOk(l) ==
    /\ process.pc # "exited"
    /\ accept_loops[l].pc = "accepting"
    /\ Len(conns) < MaxConns
    /\ conns' = Append(conns,
            [listener |-> l,
             state |-> IF ListenerCfg(l).protocol = "https" THEN "handshake" ELSE "serving",
             failures_before |-> FailuresOn(l)])
    /\ UNCHANGED <<cancel_token, accept_loops, process,
                   lb_vars, router_vars, gw_vars, chain_vars, rate_vars>>

\* line 151: accept() yields an error; it is logged and the loop goes on.
AcceptErrBreaks(l) ==
    /\ process.pc # "exited"
    /\ accept_loops[l].pc = "accepting"
    /\ AcceptErrors < MaxAcceptErrors
    /\ accept_loops' = [accept_loops EXCEPT ![l].errors = @ + 1, ![l].pc = "exited"]
    /\ UNCHANGED <<cancel_token, conns, process,
                   lb_vars, router_vars, gw_vars, chain_vars, rate_vars>>

AcceptErr(l) ==
    /\ process.pc # "exited"
    /\ accept_loops[l].pc = "accepting"
    /\ AcceptErrors < MaxAcceptErrors
    /\ accept_loops' = [accept_loops EXCEPT ![l].errors = @ + 1]
    /\ UNCHANGED <<cancel_token, conns, process,
                   lb_vars, router_vars, gw_vars, chain_vars, rate_vars>>

\* lines 155-158: the cancelled() branch; the loop breaks, the function
\* returns, and the tasks it spawned are left alone.
ListenerExitAbortsTasks(l) ==
    /\ process.pc # "exited"
    /\ accept_loops[l].pc = "accepting"
    /\ cancel_token
    /\ accept_loops' = [accept_loops EXCEPT ![l].pc = "exited"]
    /\ conns' = [c \in DOMAIN conns |->
                    IF conns[c].listener = l /\ Running(conns[c].state)
                    THEN [conns[c] EXCEPT !.state = "killed"] ELSE conns[c]]
    /\ UNCHANGED <<cancel_token, process,
                   lb_vars, router_vars, gw_vars, chain_vars, rate_vars>>

ListenerExit(l) ==
    /\ process.pc # "exited"
    /\ accept_loops[l].pc = "accepting"
    /\ cancel_token
    /\ accept_loops' = [accept_loops EXCEPT ![l].pc = "exited"]
    /\ UNCHANGED <<cancel_token, conns, process,
                   lb_vars, router_vars, gw_vars, chain_vars, rate_vars>>

\* One step of a connection task: it moves from `from` to `to`.
ConnStep(c, from, to) ==
    /\ process.pc # "exited"
    /\ c \in DOMAIN conns
    /\ conns[c].state = from
    /\ conns' = [conns EXCEPT ![c].state = to]
    /\ UNCHANGED <<cancel_token, accept_loops, process,
                   lb_vars, router_vars, gw_vars, chain_vars, rate_vars>>

\* http.rs handle_https, lines 29-45: the TLS handshake succeeds, or fails,
\* is logged, and the task returns.
HandshakeOk(c) == ConnStep(c, "handshake", "serving")
HandshakeFail(c) == ConnStep(c, "handshake", "handshake_failed")

\* http.rs serve_http_connection, lines 67-72: the connection is served to
\* its end, or serve_connection returns an error that is logged, or a
\* request handler panics and unwinds the task.
ServeDone(c) == ConnStep(c, "serving", "closed")
ServeError(c) == ConnStep(c, "serving", "serve_error")
ServePanic(c) == ConnStep(c, "serving", "panicked")

\* utils.rs graceful_shutdown, lines 65-66, called on SIGINT or SIGTERM.
ShutdownCancel ==
    /\ process.pc = "running"
    /\ cancel_token' = TRUE
    /\ process' = [pc |-> "draining", slept |-> 0]
    /\ UNCHANGED <<accept_loops, conns, lb_vars, router_vars, gw_vars, chain_vars, rate_vars>>

\* line 67: the timer of the drain sleep fires, DrainSecs after it was set.
DrainSleep ==
    /\ process.pc = "draining"
    /\ process.slept < DrainSecs
    /\ process' = [process EXCEPT !.slept = DrainSecs]
    /\ UNCHANGED <<cancel_token, accept_loops, conns,
                   lb_vars, router_vars, gw_vars, chain_vars, rate_vars>>

\* The sleep is over, graceful_shutdown returns and the process exits:
\* whatever task still runs ends with it.
ProcessExit ==
    /\ process.pc = "draining"
    /\ process.slept = DrainSecs
    /\ process' = [process EXCEPT !.pc = "exited"]
    /\ conns' = [c \in DOMAIN conns |->
                    IF Running(conns[c].state)
                    THEN [conns[c] EXCEPT !.state = "killed"] ELSE conns[c]]
    /\ accept_loops' = [l \in LoopNames |->
                    IF accept_loops[l].pc = "accepting"
                    THEN [accept_loops[l] EXCEPT !.pc = "killed"] ELSE accept_loops[l]]
    /\ UNCHANGED <<cancel_token, lb_vars, router_vars, gw_vars, chain_vars, rate_vars>>

NextListen ==
    \/ \E l \in LoopNames : AcceptOk(l)
    \/ \E l \in LoopNames : AcceptErr(l)
    \/ \E l \in LoopNames : ListenerExit(l)
    \/ \E c \in 1..MaxConns : HandshakeOk(c)
    \/ \E c \in 1..MaxConns : HandshakeFail(c)
    \/ \E c \in 1..MaxConns : ServeDone(c)
    \/ \E c \in 1..MaxConns : ServeError(c)
    \/ \E c \in 1..MaxConns : ServePanic(c)
    \/ ShutdownCancel
    \/ DrainSleep
    \/ ProcessExit

SpecListen == InitListen /\ [][NextListen]_vars

\* The runtime polls a task that has been woken, and select! picks among
\* its ready branches at random: a loop whose cancelled() branch is ready
\* takes it in the end.
SpecListenFair == SpecListen /\ \A l \in LoopNames : WF_vars(ListenerExit(l))

(***************************************************************************)
(* Listener supervisor claims                                              *)
(***************************************************************************)
AllLoopsExited == \A l \in LoopNames : accept_loops[l].pc = "exited"

\* C27: once the token is cancelled every accept loop eventually exits
\* (unless the process ends first); a loop that has taken the cancelled()
\* branch accepts nothing more; its exit leaves the connection tasks as
\* they are, and a running connection task is ended from outside only by
\* the process exiting once the 5 s drain sleep is over.
C27_ShutdownStopsAccepting ==
    /\ cancel_token ~> (AllLoopsExited \/ process.pc = "exited")
    /\ [][/\ \A l \in LoopNames :
                accept_loops[l].pc = "exited" =>
                    /\ accept_loops'[l].pc = "exited"
                    /\ ConnsOf(l)' = ConnsOf(l)
          /\ \A l \in LoopNames :
                (accept_loops[l].pc = "accepting" /\ accept_loops'[l].pc = "exited") =>
                    /\ cancel_token
                    /\ conns' = conns
          /\ \A c \in DOMAIN conns :
                (Running(conns[c].state) /\ conns'[c].state = "killed") =>
                    /\ cancel_token
                    /\ process.pc = "draining"
                    /\ process.slept = DrainSecs
                    /\ process'.pc = "exited"
         ]_vars

\* Both loops have exited on the cancellation, the drain sleep is over, and
\* a connection accepted before that is still being served.
C27_Witness ==
    /\ cancel_token
    /\ AllLoopsExited
    /\ process.pc = "draining"
    /\ process.slept = DrainSecs
    /\ \E c \in DOMAIN conns : conns[c].state = "serving"

\* The connections that fail in a step, and the loops whose accept fails.
FailingConns == {c \in DOMAIN conns : ~Failed(conns[c].state) /\ Failed(conns'[c].state)}
FailingAccepts == {l \in LoopNames : accept_loops'[l].errors > accept_loops[l].errors}

\* C28: a failed accept, a failed TLS handshake or an error (or panic)
\* while serving a connection touches that connection alone: every accept
\* loop is where it was and goes on accepting, every other connection task
\* is as it was, and the process is not shut down by it.
C28_FailuresAreIsolated ==
    [][(FailingConns # {} \/ FailingAccepts # {}) =>
            /\ \A l \in LoopNames : accept_loops'[l].pc = accept_loops[l].pc
            /\ process' = process
            /\ cancel_token' = cancel_token
            /\ DOMAIN conns' = DOMAIN conns
            /\ \A c \in DOMAIN conns \ FailingConns : conns'[c] = conns[c]
            /\ Cardinality(FailingConns) + Cardinality(FailingAccepts) = 1
      ]_vars

\* The https listener had a handshake fail and an accept fail, and then
\* accepted a connection that is now being served.
C28_Witness ==
    /\ ~cancel_token
    /\ accept_loops["https-main"].pc = "accepting"
    /\ accept_loops["https-main"].errors = 1
    /\ Len(conns) = 2
    /\ conns[1].listener = "https-main" /\ conns[1].state = "handshake_failed"
    /\ conns[2].listener = "https-main" /\ conns[2].state = "serving"
    /\ conns[2].failures_before = 2

(***************************************************************************)
(* Matcher claims, continued                                               *)
(***************************************************************************)
\* C32: a route path that does not end in "/*" matches the request paths
\* equal to it or to it followed by one "/", and no other: neither a longer
\* sub-path nor a path that only shares the prefix.
C32_ExactPath ==
    (IsSome(route_result) /\ PathOnlyRouter /\ ~EndsWith(Unwrap(http[1].path), "/*")) =>
        LET P == Unwrap(http[1].path)
        IN  /\ Routed <=> (req.path = P \/ req.path = P \o "/")
            /\ (StartsWith(req.path, P \o "/") /\ Len(req.path) > Len(P) + 1) => ~Routed
            /\ (StartsWith(req.path, P) /\ Len(req.path) > Len(P)
                    /\ SubSeq(req.path, Len(P) + 1, Len(P) + 1) # "/") => ~Routed
            /\ (P = "/a" /\ req.path \in {"/a", "/a/"}) => Routed
            /\ (P = "/a" /\ req.path \in {"/a/a", "/aa", "/a//", "/"}) => ~Routed

\* The route path "/a" met the request path "/a/" and the route was returned.
C32_Witness ==
    /\ PathOnlyRouter
    /\ Unwrap(http[1].path) = "/a"
    /\ req.path = "/a/"
    /\ Routed

\* C34: a wildcard host entry "*.S" matches only hosts that end with
\* "." + S; a host that ends with the characters of S without a label
\* boundary is not matched: "*.example.com" does not match evilexample.com.
C34_WildcardLabelBoundary ==
    (IsSome(route_result) /\ HostsOnlyRouter
        /\ Len(Unwrap(http[1].hosts)) = 1
        /\ StartsWith(Unwrap(http[1].hosts)[1], "*.")) =>
        LET entry == Unwrap(http[1].hosts)[1]
            S == SubSeq(entry, 3, Len(entry))
        IN  /\ Routed => EndsWith(req.host, "." \o S)
            /\ (entry = "*.example.com" /\ req.host = "evilexample.com") => ~Routed

(***************************************************************************)
(* Rate-limit configs of every small limit and period, from the file to    *)
(* the chain that is built for a request                                   *)
(***************************************************************************)
MkRateLimit(limit, period) ==
    [kind |-> "rate_limit", prefix |-> "", limit |-> limit, period |-> period]

\* limit is a u32 and period a humantime duration ("0s", "1s", "1m"): the
\* deserializer takes every value of either, zero included.
LimitValues == 0..MaxLimit
PeriodValues == {0, 1, 60}

LimitHttp(rate_limit, middlewares) ==
    [middlewares |-> ("prefix" :> AddPrefixApi) @@ ("rl" :> rate_limit),
     services |-> ("u" :> [upstreams |-> <<MkUpstream("http://old:5000", 1)>>]),
     routes |-> <<ApiRoute(middlewares)>>]

LimitConfigPool ==
    {WithHttp(LimitHttp(MkRateLimit(limit, period), m)) :
        limit \in LimitValues, period \in PeriodValues,
        m \in {Some(<<"prefix">>), Some(<<"rl">>)}}

\* Startup: the runtime is built from whatever file load_config accepted.
InitLimits ==
    /\ ListenIdle
    /\ LBIdle
    /\ RouterIdle
    /\ ChainIdle
    /\ RateIdle
    /\ \E c \in LimitConfigPool :
        /\ load_config([parses |-> TRUE, cfg |-> c]).ok
        /\ runtimes = <<GatewayRuntimeNew(c)>>
    /\ gateway_state = 1
    /\ rl = [r \in Reloaders |-> ReloadIdle(None)]
    /\ rq = [q \in Requests |-> RequestIdle]

\* One connection's requests on the route, served one after the other.
NextLimits ==
    \/ RequestLoad("q1", "api.example.com", "/v1/x", "http-main")
    \/ RequestRoute("q1")
    \/ RequestSelectLoad("q1")
    \/ RequestSelectAdvance("q1")
    \/ RequestBuildChain("q1")
    \/ \E inbound \in InboundPool, env \in EnvPool : RequestRunChain("q1", inbound, env)
    \/ RequestEnd("q1")

SpecLimits == InitLimits /\ [][NextLimits]_vars

\* A request task that panicked before any handler of its chain was invoked.
PanickedBuildingChain(q) ==
    /\ rq[q].pc = "panicked"
    /\ IsSome(rq[q].outcome)
    /\ Unwrap(rq[q].outcome).trace = <<>>

\* C33: every rate_limit middleware config of a config load_config accepted
\* has limit > 0 and period > 0, and no request task panics on the
\* assertions of the rate limiter's constructor while its chain is built.
C33_RateLimitConfigPositive ==
    /\ \A cfg \in AcceptedConfigs :
            \A name \in DOMAIN cfg.http.middlewares :
                cfg.http.middlewares[name].kind = "rate_limit" =>
                    /\ cfg.http.middlewares[name].limit > 0
                    /\ cfg.http.middlewares[name].period > 0
    /\ \A q \in Requests : ~PanickedBuildingChain(q)

(***************************************************************************)
(* Gateway runtime claims, continued                                       *)
(***************************************************************************)
StaticFields(cfg) ==
    <<cfg.version, cfg.admin_api, cfg.log, cfg.access_log, cfg.tls, cfg.listeners>>

\* C35: whatever reloads have succeeded, failed or overlapped, the applied
\* config's version, admin_api, log, access_log, tls and listeners are
\* those of the config applied at startup; so are those of every runtime a
\* reload has built.
C35_StaticFieldsFixed ==
    /\ StaticFields(runtimes[gateway_state].applied_config)
            = StaticFields(runtimes[1].applied_config)
    /\ \A i \in DOMAIN runtimes :
            StaticFields(runtimes[i].applied_config) = StaticFields(StartupConfig)

\* Two reloads have been applied, the second one is in force, and a reload
\* from a file with a changed static field was turned down.
C35_Witness ==
    /\ Len(runtimes) = 3
    /\ gateway_state = 3
    /\ runtimes[3].applied_config.http # runtimes[1].applied_config.http
    /\ \E r \in Reloaders :
            rl[r].result
                = Some(Err("Static fields of config has changed, config not applied"))

\* The first upstream of a pool that has a positive weight.
FirstPositiveWeight(pool) ==
    pool[CHOOSE k \in DOMAIN pool :
            /\ pool[k].weight > 0
            /\ \A j \in 1..(k - 1) : pool[j].weight = 0]

CursorOf(i, name) == runtimes[i].service_registry[name].next_index

\* The request's select() on its snapshot: the read of the cursor, and the
\* advance that returns the upstream.
SelectReads(q) == rq[q].pc = "routed" /\ rq'[q].pc = "selecting"
SelectReturns(q) == rq[q].pc = "selecting" /\ rq'[q].pc = "resolved"

\* C36: the runtime a successful reload stores has every service's cursor
\* at 0, whatever the cursors of the runtimes before it; a select() that
\* finds the cursor at 0 returns the service's first positive-weight
\* upstream; and a select() advances the cursor of the service in the
\* runtime the request loaded and no cursor of any other runtime, older or
\* newer.
C36_ReloadResetsCursors ==
    [][/\ Len(runtimes') > Len(runtimes) =>
            /\ SubSeq(runtimes', 1, Len(runtimes)) = runtimes
            /\ \A name \in DOMAIN runtimes'[Len(runtimes')].service_registry :
                    runtimes'[Len(runtimes')].service_registry[name].next_index = 0
       /\ \A q \in Requests :
            LET i == rq[q].snap
                name == Unwrap(rq[q].route).service
            IN  /\ (SelectReads(q) /\ CursorOf(i, name) = 0) =>
                        runtimes[i].service_registry[name].upstreams[rq'[q].upstream_index + 1]
                            = FirstPositiveWeight(runtimes[i].service_registry[name].upstreams)
                /\ SelectReturns(q) =>
                        /\ Unwrap(rq'[q].upstream)
                                = runtimes[i].service_registry[name].upstreams[
                                        rq[q].upstream_index + 1]
                        /\ \A j \in DOMAIN runtimes :
                                \A other \in DOMAIN runtimes[j].service_registry :
                                    (j # i \/ other # name) =>
                                        runtimes'[j].service_registry[other]
                                            = runtimes[j].service_registry[other]
      ]_vars

\* The service was reloaded unchanged after its cursor had moved to 1: the
\* request in flight on the old runtime and the one that loaded the new
\* runtime were both given the first positive-weight upstream, and the new
\* runtime's cursor has moved once.
C36_Witness ==
    /\ Len(runtimes) = 3
    /\ runtimes[3].applied_config = runtimes[2].applied_config
    /\ runtimes[2].applied_config = WithHttp(HttpNewServices)
    /\ CursorOf(2, "u") = 0
    /\ CursorOf(3, "u") = 1
    /\ rq["q1"].snap = 2 /\ rq["q1"].pc = "resolved"
    /\ rq["q2"].snap = 3 /\ rq["q2"].pc = "resolved"
    /\ rq["q1"].upstream = Some(MkUpstream("http://new1:5000", 1))
    /\ rq["q2"].upstream = Some(MkUpstream("http://new1:5000", 1))

(***************************************************************************)
(* Request handling claims, continued                                      *)
(***************************************************************************)
\* The step in which the request's middleware chain runs.
ChainRuns(q) == rq[q].pc = "running" /\ rq'[q].pc \in {"done", "panicked"}

ShortCircuited(q) ==
    /\ IsSome(rq[q].outcome)
    /\ Unwrap(rq[q].outcome).status = 429
    /\ Unwrap(rq[q].outcome).outbound = None

\* C37: a request whose route matched and whose service gave an upstream
\* has advanced the load balancer exactly once when its chain starts, by
\* one position of that service's cursor, and the chain advances nothing,
\* also when a middleware answers 429 without calling the handler; a
\* request answered 404 has advanced no cursor.
C37_OneAdvanceBeforeChain ==
    [][\A q \in Requests :
        /\ runtimes' # runtimes =>
                (\E p \in Requests :
                    LET i == rq[p].snap
                        name == Unwrap(rq[p].route).service
                        len == Len(Weighted(runtimes[i].service_registry[name].upstreams))
                    IN  /\ SelectReturns(p)
                        /\ runtimes' = [runtimes EXCEPT
                                ![i].service_registry[name].next_index = (@ + 1) % len])
        /\ rq'[q].pc \in {"resolved", "running"} => rq'[q].advances = 1
        /\ ChainRuns(q) =>
                /\ rq[q].advances = 1
                /\ rq'[q].advances = 1
                /\ runtimes' = runtimes
        /\ ShortCircuited(q)' => rq'[q].advances = 1
        /\ (rq'[q].pc = "done" /\ rq'[q].status = 404 /\ rq'[q].outcome = None) =>
                rq'[q].advances = 0
      ]_vars

\* The rate limiter answered 429 without calling the handler, and the
\* service's cursor is one position on.
C37_Witness ==
    /\ rq["q1"].pc = "done"
    /\ ShortCircuited("q1")
    /\ rq["q1"].advances = 1
    /\ CursorOf(1, "u") = 1
    /\ rq["q1"].upstream = Some(MkUpstream("http://old:5000", 1))

(***************************************************************************)
(* Rate limiter claims, continued                                          *)
(***************************************************************************)
\* C38: whatever other requests for the key do and however much time
\* passes between a request's allow() and its retry_after(), the bucket
\* retry_after() reads holds the token count that denied the request, and
\* the 429 carries a Retry-After of at least 1 second computed from that
\* count.
C38_RetryAfterOfOwnDenial ==
    [][\A t \in RateTasks :
        (rt[t].pc = "denied" /\ rt'[t].pc = "done") =>
            LET bucket == store[rt[t].key]
            IN  /\ rt'[t].status = 429
                /\ bucket.available_tokens = rt[t].denied_with
                /\ rt'[t].retry_after >= 1
                /\ rt'[t].retry_after =
                        SecondsToNextToken([bucket EXCEPT !.available_tokens = rt[t].denied_with])
      ]_vars

(***************************************************************************)
(* A rate-limited route: the chain around the rate limiter's call          *)
(*                                                                         *)
(* Two request tasks of one client go through the chain request_id,        *)
(* access_log, rate_limit, add_prefix. A task takes the limiter's answer   *)
(* from the store (RateAllow, RateDeny) and then returns up the chain;     *)
(* chain_out holds what the chain of the task that returned last did.      *)
(***************************************************************************)
\* One request a minute: half a token comes back with every tick.
RateLimitSlow == [kind |-> "rate_limit", prefix |-> "", limit |-> 1, period |-> 60]

RouteLimiters == {RateLimitTwo, RateLimitSlow}

\* The position of the rate limiter in the chain create_chain builds: the
\* first after the middlewares every chain starts with.
LimiterPos == Len(create_chain(<<>>)) + 1

\* What the outside world does apart from the limiter, whose answers the
\* run takes from the task.
LimitedEnv ==
    [uuid |-> GeneratedUuid, allow |-> [i \in 1..MaxChainLen |-> TRUE], retry_after |-> 0,
     body_ok |-> TRUE,
     upstream |-> [kind |-> "ok", status |-> 200, headers |-> ("server" :> "nginx")]]

InitLimited ==
    /\ ListenIdle
    /\ LBIdle
    /\ RouterIdle
    /\ GatewayIdle
    /\ store = EmptyMap
    /\ now = 0
    /\ hist = EmptyMap
    /\ \E limiter \in RouteLimiters :
            /\ rt = [t \in RateTasks |-> [RateTaskIdle EXCEPT !.limiter = limiter]]
            /\ chain_in = [chain |-> create_chain(<<limiter, AddPrefixApi>>),
                           request |-> InboundRequest("api.example.com", "/v1/x",
                                            [method |-> "GET", query |-> None,
                                             headers |-> EmptyMap]),
                           env |-> LimitedEnv]
    /\ chain_out = None

\* The call of the rate limiter is over (next.run returned, or the 429 was
\* built) and the task returns through the middlewares before it.
LimitedReturn(t) ==
    /\ rt[t].pc \in {"admitted", "done"}
    /\ LET env == [chain_in.env EXCEPT
                        !.allow = [i \in 1..MaxChainLen |-> rt[t].allowed],
                        !.retry_after = rt[t].retry_after]
           handler == [upstream_url |-> "http://old:5000", client_ip |-> rt[t].key]
       IN  chain_out' = Some([task |-> t,
                              outcome |-> NextRun(chain_in.chain, 1, handler,
                                                  chain_in.request, env)])
    /\ rt' = [rt EXCEPT ![t] = [RateTaskIdle EXCEPT !.limiter = rt[t].limiter]]
    /\ UNCHANGED <<chain_in, store, now, hist, lb_vars, router_vars, gw_vars, listen_vars>>

NextLimited ==
    \/ \E t \in RateTasks, key \in RateKeys : RateAllow(t, key)
    \/ \E t \in RateTasks : RateDeny(t)
    \/ \E t \in RateTasks : LimitedReturn(t)
    \/ BurstTick

SpecLimited == InitLimited /\ [][NextLimited]_vars

\* The steps of a denied request: allow() says no, retry_after() is read,
\* the 429 goes back up the chain.
DenialStep(t) == rt[t].pc = "idle" /\ rt'[t].pc = "denied"
RetryAfterStep(t) == rt[t].pc = "denied" /\ rt'[t].pc = "done"
DeniedReturnStep(t) == rt[t].pc = "done" /\ rt'[t].pc = "idle"

\* C31: a request the rate limiter denies takes no token: its allow()
\* leaves the key's bucket as the refill alone makes it and the rest of
\* its call leaves the store as it is; no middleware after the rate
\* limiter and no send_upstream is invoked and no upstream request is
\* made; and the 429 returns through access_log, which emits exactly one
\* record for it, with status 429.
C31_DeniedRequestEffects ==
    [][\A t \in RateTasks :
        /\ DenialStep(t) =>
                /\ rt'[t].key \in DOMAIN store
                /\ store' = [store EXCEPT ![rt'[t].key] = refill(@, now)]
                /\ store'[rt'[t].key].available_tokens < store'[rt'[t].key].period
        /\ RetryAfterStep(t) => store' = store
        /\ DeniedReturnStep(t) =>
                LET outcome == Unwrap(chain_out').outcome
                IN  /\ store' = store
                    /\ ~outcome.panicked
                    /\ outcome.status = 429
                    /\ \A k \in DOMAIN outcome.trace :
                            /\ outcome.trace[k].pos <= LimiterPos
                            /\ outcome.trace[k].kind # "send_upstream"
                    /\ outcome.trace[Len(outcome.trace)].kind = "rate_limit"
                    /\ outcome.handled = None
                    /\ outcome.outbound = None
                    /\ Len(outcome.records) = 1
                    /\ outcome.records[1].status = 429
                    /\ outcome.records[1].path = "/v1/x"
      ]_vars

\* A request was denied half a minute after the one token of its key was
\* taken, with the half token the refill had brought back still there, and
\* its 429 has gone back up the chain.
C31_Witness ==
    /\ IsSome(chain_out)
    /\ Unwrap(chain_out).outcome.status = 429
    /\ Len(Unwrap(chain_out).outcome.records) = 1
    /\ now = 1
    /\ "10.0.0.1" \in DOMAIN store
    /\ store["10.0.0.1"].limit = 1
    /\ store["10.0.0.1"].last_refill = 1
    /\ 2 * store["10.0.0.1"].available_tokens = store["10.0.0.1"].period
    /\ hist["10.0.0.1"].calls = 2

====
